---------------------------- MODULE Spec2Model ----------------------------
(***************************************************************************)
(* Model of the farm supervision layer of space-acres                      *)
(* (src/src/backend/farmer.rs): create_farmer, the plotting-delay gate,    *)
(* the plotted-piece index, the farm supervisor and the pause controller.  *)
(*                                                                         *)
(* Farm indexes are 0-based as in the code; a Vec is a sequence, so the    *)
(* element of farm index i is at position i + 1.                           *)
(***************************************************************************)
EXTENDS Naturals, Integers, Sequences, FiniteSets, Bags, TLC

\* Largest number of disk farms handed to create_farmer.
MaxFarms == 3

\* Largest number of cache sync-progress events in one run.
MaxSyncEvents == 2

\* Largest number of L3 cache groups of the machine.
MaxL3CacheGroups == 2

\* Largest number of L3 cache groups of the machines whose thread pool
\* partitioning is checked, and largest number of cores of one group.
MaxCpuCoreSets == 4
MaxCpuCores == 4

\* Largest number of cores of the machines with one large L3 cache group.
ManyCpuCores == 18

\* Number of disk farms of the large configurations: one more than a u8
\* farm index can number.
ManyFarms == 257

\* Largest number of clones of the action sender handed out by action_sender().
MaxSenderClones == 1

\* Largest number of callbacks registered through on_notification.
MaxNotificationHandlers == 1

\* Largest number of times one re-announcement task wakes up.
MaxReannounced == 2

\* Sector slots of a farm: farm 0 has two, every other farm one.
SectorIndexesOf(farm_index) == IF farm_index = 0 THEN {0, 1} ELSE {0}

\* The piece_indexes lists a plotted sector may carry (offset -> piece):
\* the two share piece 2, at different offsets.
PieceIndexesChoices == {<<1, 2>>, <<2, 3>>}

\* Progress values (in %) passed to on_sync_progress callbacks.
ProgressValues == {0, 100}

VARIABLES
    disk_farms,              \* FarmerOptions::disk_farms
    startup,                 \* Cli::startup
    child_output,            \* how the child's output is handled (main.rs 927-992)
    supervisor_pc,           \* position of Cli::supervisor
    launches,                \* child processes launched so far
    args,                    \* the arguments of the last launch
    child_state,             \* the child process: none, running, exited
    child_code,              \* ExitStatus::code() of the exited child
    exit_status,             \* the supervisor's exit_status, once obtained
    supervisor_result,       \* how Cli::supervisor ended
    status_code,             \* an i32 status code
    app_status_code,         \* the AppStatusCode made from it
    round_trip,              \* the status code made from that
    directories,             \* per farm directory: its state in the file system
    pc,                      \* position of create_farmer / Farmer::run
    result,                  \* what create_farmer returned
    farms_stream,            \* construction futures still pending
    farms_pushed,            \* (farm_index, farm) pairs pushed in completion order
    hardware_core_sets,      \* the CpuCoreSets thread_pool_core_indices returned
    plotting_thread_pool_core_indices,    \* the plotting sets at line 277
    replotting_thread_pool_core_indices,  \* the replotting sets at line 277
    plotting_thread_pool_manager,         \* the pairs the manager was created from
    initial_farm_states,     \* the Vec<InitialFarmState> create_farmer computed
    run_result,              \* what Farmer::run returned, and why
    io_done,                 \* kinds of I/O create_farmer has performed
    farms,                   \* farm handles after order was restored
    plotting_delay_senders,  \* oneshot senders owned by the sync-progress handler
    delay_sent,              \* per farm: how often its delay signal was sent
    handler_id,              \* Arc<Mutex<Option<HandlerId>>> of the delay handler
    sync_handlers,           \* handlers registered on farmer_cache.on_sync_progress
    sync_events,             \* sync-progress events raised so far
    delay_callback,          \* where a call of the plotting-delay handler is
    farm_sectors,            \* per farm and sector slot: the farm's plotted sector, and whether reading it fails
    seed_farm,               \* farm index the seeding loop is at
    seed_sector,             \* sector index the seeding loop is at
    future_plotted_pieces,   \* the index being seeded
    plotted_pieces,          \* Arc<Mutex<Option<PlottedPieces>>>
    callback,                \* the on_plotted_sector_callback in progress, step by step
    sector_update,           \* the SectorPlottingDetails::Finished last passed to the handlers
    notification_handlers,   \* callbacks registered on the Notifications handler
    last_notification,       \* the FarmerNotification last passed to those callbacks
    farm_error_emitted,      \* per farm: FarmError notifications passed to call_simple
    farms_run_stream,        \* farm run futures still in the supervisor's stream
    farm_exit,               \* per farm: how its run future ended, as logged
    farm_errors,             \* farms with a re-announcement task
    reannounced,             \* per farm: "Farm errored and stopped" lines logged
    farms_fut_await,         \* what farms_fut awaits
    action_senders,          \* clones of the action sender that are alive
    action_queue,            \* FarmerActions buffered in the mpsc channel
    pause_plotting,          \* value of the watch channel
    pause_unseen,            \* the watch channel holds a value the receiver has not seen
    plotting_thread_pools_count,
    pause_await,             \* what pause_plotting_actions_fut awaits
    thread_pools,            \* thread pool pairs held by pause_plotting_actions_fut
    thread_pools_cleared,    \* pairs the last thread_pools.clear() returned
    farm_thread_pools        \* per farm: whether it holds a thread pool pair

poolVars == <<hardware_core_sets, plotting_thread_pool_core_indices,
              replotting_thread_pool_core_indices, plotting_thread_pool_manager>>
procVars == <<startup, child_output, supervisor_pc, launches, args, child_state, child_code,
             exit_status, supervisor_result, status_code, app_status_code, round_trip>>
createVars == <<disk_farms, directories, pc, result, farms_stream, farms_pushed, farms, io_done,
                run_result, poolVars, initial_farm_states>>
delayVars == <<plotting_delay_senders, delay_sent, handler_id, sync_handlers, sync_events,
              delay_callback>>
indexVars == <<farm_sectors, seed_farm, seed_sector, future_plotted_pieces, plotted_pieces,
               sector_update, callback>>
hubVars == <<notification_handlers, last_notification, farm_error_emitted>>
supVars == <<farms_run_stream, farm_exit, farm_errors, reannounced, farms_fut_await>>
actionVars == <<action_senders, action_queue, pause_plotting, pause_unseen>>
pauseVars == <<plotting_thread_pools_count, pause_await, thread_pools, thread_pools_cleared,
               farm_thread_pools>>

farmerVars == <<createVars, delayVars, indexVars, hubVars, supVars, actionVars, pauseVars>>
vars == <<procVars, farmerVars>>

N == Len(disk_farms)
FarmIndexes == 0 .. (N - 1)
AllFarmIndexes == 0 .. (MaxFarms - 1)

-----------------------------------------------------------------------------
(* Option<T> *)

None == <<>>
Some(x) == <<x>>
IsSome(o) == o # None
Unwrap(o) == o[1]

-----------------------------------------------------------------------------
(* Data *)

\* DiskFarm { directory, .. }: the directory identifies the input spec.
DiskFarm(i) == [directory |-> i]

\* The states of a farm directory: it exists, it is missing and create_dir
\* creates it, it is missing and create_dir fails, and, after the loop of
\* lines 211-222, create_dir was called for it and returned an error.
DirectoryStates == {"exists", "missing", "uncreatable"}

\* The farm SingleDiskFarm::new builds from a DiskFarm.
FarmOf(disk_farm) == [directory |-> disk_farm.directory]

\* PlottedSector { sector_index, piece_indexes, .. }
PlottedSector(sector_index, piece_indexes) ==
    [sector_index |-> sector_index, piece_indexes |-> piece_indexes]

\* A sector slot of a farm that holds a plotted sector; read_error says that
\* reading its record from plotted_sectors() fails.
SectorSlot(plotted_sector, read_error) ==
    [plotted_sector |-> plotted_sector, read_error |-> read_error]

\* The entries (piece, farm, sector, offset) a plotted sector stands for.
SectorEntries(farm_index, plotted_sector) ==
    {<<plotted_sector.piece_indexes[o], farm_index, plotted_sector.sector_index, o - 1>> :
        o \in DOMAIN plotted_sector.piece_indexes}

\* add_sector that records nothing.
add_sector_nothing(index, farm_index, plotted_sector) == index

\* PlottedPieces::add_sector: one entry is pushed per piece of the sector.
add_sector(index, farm_index, plotted_sector) ==
    index (+) SetToBag(SectorEntries(farm_index, plotted_sector))

\* delete_sector called with farm 0 whatever the farm.
delete_sector_farm_zero(index, farm_index, plotted_sector) ==
    index (-) SetToBag(SectorEntries(0, plotted_sector))

\* PlottedPieces::delete_sector: one matching entry is removed per piece.
delete_sector(index, farm_index, plotted_sector) ==
    index (-) SetToBag(SectorEntries(farm_index, plotted_sector))

-----------------------------------------------------------------------------
(* farms.sort_unstable_by_key(|(farm_index, _farm)| *farm_index) *)

\* The pairs ordered by their key. The keys are the indexes enumerate()
\* gave the farms, so they are distinct and the unstable sort has one
\* outcome: a pair goes to the position that counts the pairs before it.
SortByKey(pairs) ==
    LET before == [j \in DOMAIN pairs |->
                    Cardinality({m \in DOMAIN pairs :
                        \/ pairs[m][1] < pairs[j][1]
                        \/ pairs[m][1] = pairs[j][1] /\ m < j})]
    IN  [k \in DOMAIN pairs |-> pairs[CHOOSE j \in DOMAIN pairs : before[j] = k - 1]]

\* The pairs in the order of completion, the index dropped without sorting.
RestoreOrderUnsorted(pairs) == [k \in DOMAIN pairs |-> pairs[k][2]]

\* Lines 409-415: sort by farm_index, then drop the index.
RestoreOrder(pairs) ==
    LET sorted == SortByKey(pairs)
    IN  [k \in DOMAIN sorted |-> sorted[k][2]]


\* farm_index.try_into() / u8::try_from(farm_index) succeeds up to this value.
U8_MAX == 255

-----------------------------------------------------------------------------
(* create_farmer *)

\* a.div_ceil(b) and the smaller of two lengths.
DivCeil(a, b) == (a + b - 1) \div b
Min(a, b) == IF a < b THEN a ELSE b

\* A CpuCoreSet is the list of its core indexes. The machine's sets, as
\* thread_pool_core_indices(None, None) returns them (lines 248 and 250):
\* one per L3 cache group, the cores numbered consecutively.
RECURSIVE CoresBefore(_, _)
CoresBefore(core_counts, j) ==
    IF j = 1 THEN 0 ELSE CoresBefore(core_counts, j - 1) + core_counts[j - 1]

thread_pool_core_indices(core_counts) ==
    [j \in 1 .. Len(core_counts) |->
        [k \in 1 .. core_counts[j] |-> CoresBefore(core_counts, j) + k - 1]]

\* The machines of the bounded checks: up to MaxCpuCoreSets L3 cache groups
\* of 1 to MaxCpuCores cores each, and machines with one group of up to
\* ManyCpuCores cores.
CpuCoreSetsChoices ==
    {thread_pool_core_indices(core_counts) :
        core_counts \in UNION {[1 .. g -> 1 .. MaxCpuCores] : g \in 1 .. MaxCpuCoreSets}}
    \cup {thread_pool_core_indices(<<cores>>) : cores \in (ManyCpuCores - 3) .. ManyCpuCores}

\* A machine with l3_cache_groups groups of two cores.
L3CacheGroups(l3_cache_groups) ==
    thread_pool_core_indices([j \in 1 .. l3_cache_groups |-> 2])

\* Line 254, CpuCoreSet::truncate: the first num_cores cores are kept.
truncate(set, num_cores) == SubSeq(set, 1, Min(num_cores, Len(set)))

\* The cores of the sets at positions from .. to, in order.
RECURSIVE CombineCores(_, _, _)
CombineCores(cpu_core_sets, from, to) ==
    IF from > to
    THEN <<>>
    ELSE cpu_core_sets[from] \o CombineCores(cpu_core_sets, from + 1, to)

\* Lines 266 and 268, CpuCoreSet::regroup: the sets are cut into chunks of
\* len.div_ceil(target_sets) consecutive sets and the cores of each chunk
\* are combined into one set.
regroup(cpu_core_sets, target_sets) ==
    LET chunk_size == DivCeil(Len(cpu_core_sets), target_sets)
    IN  [c \in 1 .. DivCeil(Len(cpu_core_sets), chunk_size) |->
            CombineCores(cpu_core_sets, (c - 1) * chunk_size + 1,
                         Min(c * chunk_size, Len(cpu_core_sets)))]

\* Lines 258 and 264: the sets are regrouped when there are several and
\* more of them than farms.
ShouldRegroup(cpu_core_sets, farms_count) ==
    Len(cpu_core_sets) > 1 /\ Len(cpu_core_sets) > farms_count

\* Lines 248 and 258-266: the plotting sets.
PlottingCoreIndices(cpu_core_sets, farms_count) ==
    IF ShouldRegroup(cpu_core_sets, farms_count)
    THEN regroup(cpu_core_sets, farms_count)
    ELSE cpu_core_sets

\* Lines 249-256 and 258-268: the replotting sets, each machine set
\* truncated to half its cores before the regrouping.
ReplottingCoreIndices(cpu_core_sets, farms_count) ==
    LET halved == [j \in 1 .. Len(cpu_core_sets) |->
                      truncate(cpu_core_sets[j], Len(cpu_core_sets[j]) \div 2)]
    IN  IF ShouldRegroup(cpu_core_sets, farms_count)
        THEN regroup(halved, farms_count)
        ELSE halved

\* Lines 292-294, into_iter().zip(): the pairs, as many as the shorter list.
zip(a, b) == [i \in 1 .. Min(Len(a), Len(b)) |-> <<a[i], b[i]>>]

\* main.rs 912-915: the state of a process in which Cli::supervisor has not
\* been called.
SupervisorIdle ==
    /\ startup = FALSE
    /\ child_output = "inherit"
    /\ supervisor_pc = "none"
    /\ launches = 0
    /\ args = <<>>
    /\ child_state = "none"
    /\ child_code = None
    /\ exit_status = None
    /\ supervisor_result = None
    /\ status_code = 0
    /\ app_status_code = None
    /\ round_trip = None

\* Lines 192-205: create_farmer is entered with one of farm_counts disk
\* farms.
CreateFarmerEntered(farm_counts) ==
    /\ disk_farms \in {[k \in 1 .. n |-> DiskFarm(k - 1)] : n \in farm_counts}
    /\ directories \in IF N <= MaxFarms
                        THEN [FarmIndexes -> DirectoryStates]
                        ELSE {[d \in FarmIndexes |-> "exists"]}
    /\ pc = "start"
    /\ result = "none"
    /\ farms_stream = {}
    /\ farms_pushed = <<>>
    /\ farms = <<>>
    /\ io_done = {}
    /\ initial_farm_states = <<>>
    /\ hardware_core_sets = <<>>
    /\ plotting_thread_pool_core_indices = <<>>
    /\ replotting_thread_pool_core_indices = <<>>
    /\ plotting_thread_pool_manager = <<>>
    /\ run_result = "none"
    /\ plotting_delay_senders = <<>>
    /\ delay_sent = [i \in FarmIndexes |-> 0]
    /\ handler_id = None
    /\ sync_handlers = {}
    /\ sync_events = 0
    /\ delay_callback = "idle"
    /\ farm_sectors = [i \in FarmIndexes |-> [s \in SectorIndexesOf(i) |-> None]]
    /\ seed_farm = 0
    /\ seed_sector = 0
    /\ future_plotted_pieces = EmptyBag
    /\ plotted_pieces = None
    /\ sector_update = None
    /\ callback = None
    /\ notification_handlers = 0
    /\ last_notification = None
    /\ farm_error_emitted = [i \in FarmIndexes |-> 0]
    /\ farms_run_stream = {}
    /\ farm_exit = [i \in FarmIndexes |-> "none"]
    /\ farm_errors = {}
    /\ reannounced = [i \in FarmIndexes |-> 0]
    /\ farms_fut_await = "none"
    /\ action_senders = 0
    /\ action_queue = <<>>
    /\ pause_plotting = FALSE
    /\ pause_unseen = FALSE
    /\ plotting_thread_pools_count = 0
    /\ pause_await = "none"
    /\ thread_pools = 0
    /\ thread_pools_cleared = 0
    /\ farm_thread_pools = [i \in FarmIndexes |-> FALSE]

\* The process that runs create_farmer is not the process supervisor.
InitWith(farm_counts) == SupervisorIdle /\ CreateFarmerEntered(farm_counts)

Init == InitWith(0 .. MaxFarms)

\* Lines 207-209 without the check.
DiskFarmsEmptyUnchecked == FALSE

\* Line 207: disk_farms.is_empty().
DiskFarmsEmpty == disk_farms = <<>>

\* Lines 211-222 with the loop run to its end: the error is that of the
\* last directory that cannot be created.
LastUncreatable(fs) ==
    LET bad == {k \in DOMAIN disk_farms : fs[disk_farms[k].directory] = "uncreatable"}
    IN  IF bad = {} THEN 0 ELSE CHOOSE k \in bad : \A j \in bad : j <= k

\* Lines 211-222, `for farm in &disk_farms`: the position in disk_farms of
\* the farm at which the loop returns, the first whose directory does not
\* exist and cannot be created; 0 when the loop ends.
FirstUncreatable(fs) ==
    LET bad == {k \in DOMAIN disk_farms : fs[disk_farms[k].directory] = "uncreatable"}
    IN  IF bad = {} THEN 0 ELSE CHOOSE k \in bad : \A j \in bad : k <= j

\* Lines 211-222: the file system after the loop. The missing directories
\* of the farms the loop passed are created; the directory the error
\* message names is the one create_dir failed for.
CreateDirectories(fs) ==
    LET failed == FirstUncreatable(fs)
    IN  [d \in DOMAIN fs |->
            IF failed # 0 /\ d = disk_farms[failed].directory
            THEN "create_failed"
            ELSE IF /\ fs[d] = "missing"
                    /\ \E k \in DOMAIN disk_farms :
                            /\ disk_farms[k].directory = d
                            /\ failed = 0 \/ k < failed
            THEN "exists"
            ELSE fs[d]]

\* Lines 282-289: half the cores of the first plotting set, at most 8;
\* NonZeroUsize::new of it is None when it is 0.
record_encoding_concurrency(plotting) == Min(Len(plotting[1]) \div 2, 8)

\* Lines 230-296: what can fail after the directories, before the farms.
StartErrors == {"none", "farmer_app_info_failed", "thread_pool_manager_failed"}

\* Lines 207-397: the empty check, the directories, the node client, the
\* thread pools, then the oneshot channels and the unordered stream of
\* construction futures.
Start(cpu_core_sets, start_error) ==
    /\ pc = "start"
    /\ IF DiskFarmsEmpty
       THEN /\ pc' = "failed"
            /\ result' = "no_disk_farms"
            /\ UNCHANGED <<io_done, farms_stream, plotting_delay_senders,
                           plotting_thread_pools_count, poolVars, directories>>
       ELSE IF FirstUncreatable(directories) # 0
       THEN /\ pc' = "failed"
            /\ result' = "create_dir_failed"
            /\ io_done' = {"directories"}
            /\ directories' = CreateDirectories(directories)
            /\ UNCHANGED <<farms_stream, plotting_delay_senders,
                           plotting_thread_pools_count, poolVars>>
       ELSE IF /\ start_error # "farmer_app_info_failed"
               /\ record_encoding_concurrency(PlottingCoreIndices(cpu_core_sets, N)) = 0
       THEN /\ pc' = "panicked"
            /\ result' = result
            /\ io_done' = {"directories", "node_client"}
            /\ directories' = CreateDirectories(directories)
            /\ hardware_core_sets' = cpu_core_sets
            /\ plotting_thread_pool_core_indices' = PlottingCoreIndices(cpu_core_sets, N)
            /\ replotting_thread_pool_core_indices' = ReplottingCoreIndices(cpu_core_sets, N)
            /\ plotting_thread_pools_count' = Len(plotting_thread_pool_core_indices')
            /\ UNCHANGED <<farms_stream, plotting_delay_senders, plotting_thread_pool_manager>>
       ELSE IF start_error # "none"
       THEN /\ pc' = "failed"
            /\ result' = start_error
            /\ io_done' = {"directories", "node_client"}
            /\ directories' = CreateDirectories(directories)
            /\ UNCHANGED <<farms_stream, plotting_delay_senders,
                           plotting_thread_pools_count, poolVars>>
       ELSE /\ pc' = "constructing"
            /\ result' = result
            /\ io_done' = {"directories", "node_client", "farms"}
            /\ directories' = CreateDirectories(directories)
            /\ hardware_core_sets' = cpu_core_sets
            /\ plotting_thread_pool_core_indices' = PlottingCoreIndices(cpu_core_sets, N)
            /\ replotting_thread_pool_core_indices' = ReplottingCoreIndices(cpu_core_sets, N)
            /\ plotting_thread_pools_count' = Len(plotting_thread_pool_core_indices')
            /\ plotting_thread_pool_manager' = zip(plotting_thread_pool_core_indices',
                                                   replotting_thread_pool_core_indices')
            /\ farms_stream' = FarmIndexes
            /\ plotting_delay_senders' = [k \in 1 .. N |-> k - 1]
    /\ UNCHANGED <<initial_farm_states, run_result, disk_farms, procVars, farms_pushed, farms,
                   delay_sent, handler_id, sync_handlers, sync_events, delay_callback>>
    /\ UNCHANGED <<pause_await, thread_pools, thread_pools_cleared, farm_thread_pools>>
    /\ UNCHANGED <<indexVars, hubVars, supVars, actionVars>>

\* Lines 420-440 with the closure called instead of registered: the
\* senders are sent on at once.
RegisterPlottingDelayHandlerSendsNow ==
    /\ handler_id' = None
    /\ sync_handlers' = sync_handlers
    /\ plotting_delay_senders' = <<>>
    /\ delay_sent' = [i \in FarmIndexes |-> delay_sent[i] + 1]

\* Lines 420-440: the plotting-delay closure, which owns the senders, is
\* registered on on_sync_progress and its handler id stored in the slot.
RegisterPlottingDelayHandler ==
    /\ handler_id' = Some("plotting_delay")
    /\ sync_handlers' = sync_handlers \cup {"plotting_delay"}
    /\ UNCHANGED <<plotting_delay_senders, delay_sent>>

\* Lines 399-418: a construction future completed with Ok and its pair is
\* pushed; when the stream is exhausted the order is restored (the pairs
\* are consumed) and the plotting-delay handler is registered.
FarmConstructed(i) ==
    /\ pc = "constructing"
    /\ i \in farms_stream
    /\ farms_stream' = farms_stream \ {i}
    /\ LET pushed == Append(farms_pushed, <<i, FarmOf(disk_farms[i + 1])>>)
       IN  IF farms_stream' = {}
           THEN /\ farms' = RestoreOrder(pushed)
                /\ farms_pushed' = <<>>
                /\ RegisterPlottingDelayHandler
                /\ pc' = "replace_backing_caches"
           ELSE /\ farms_pushed' = pushed
                /\ UNCHANGED <<farms, pc>>
                /\ UNCHANGED <<plotting_delay_senders, delay_sent, handler_id, sync_handlers>>
    /\ UNCHANGED <<initial_farm_states, poolVars, io_done, run_result, disk_farms, procVars, directories, result, sync_events, delay_callback>>
    /\ UNCHANGED <<indexVars, hubVars, supVars, actionVars, pauseVars>>

\* Lines 400-440 with the error returned after the plotting-delay handler
\* was registered.
FarmConstructionFailedLate(i, error) ==
    /\ pc = "constructing"
    /\ i \in farms_stream
    /\ farms_stream' = {}
    /\ RegisterPlottingDelayHandler
    /\ pc' = "failed"
    /\ result' = error
    /\ UNCHANGED <<initial_farm_states, poolVars, io_done, run_result, disk_farms, procVars, directories, farms_pushed, farms, sync_events, delay_callback>>
    /\ UNCHANGED <<indexVars, hubVars, supVars, actionVars, pauseVars>>

\* Lines 355-377 and 400-406: a construction future completed with an error;
\* `farm?` returns it, dropping the stream and the oneshot senders.
FarmConstructionFailed(i, error) ==
    /\ pc = "constructing"
    /\ i \in farms_stream
    /\ farms_stream' = {}
    /\ plotting_delay_senders' = <<>>
    /\ pc' = "failed"
    /\ result' = error
    /\ UNCHANGED <<initial_farm_states, poolVars, io_done, run_result, disk_farms, procVars, directories, farms_pushed, farms, delay_sent, handler_id,
                   sync_handlers, sync_events, delay_callback>>
    /\ UNCHANGED <<indexVars, hubVars, supVars, actionVars, pauseVars>>

\* Lines 465-468 with a farm index as wide as usize: every index fits.
FarmIndexFitsUsize(farm_index) == farm_index >= 0

\* Lines 465-468: the farm index is converted to u8.
FarmIndexFits(farm_index) == farm_index <= U8_MAX

\* Lines 441-470 with the shared slot written before the seeding loop: the
\* empty index is installed at once.
ReplaceBackingCachesInstallsEmpty ==
    /\ pc = "replace_backing_caches"
    /\ future_plotted_pieces' = EmptyBag
    /\ plotted_pieces' = Some(EmptyBag)
    /\ seed_farm' = 0
    /\ seed_sector' = 0
    /\ IF FarmIndexFits(0)
       THEN pc' = "seeding" /\ result' = result
       ELSE pc' = "failed" /\ result' = "more_than_256_plots"
    /\ UNCHANGED <<initial_farm_states, poolVars, io_done, run_result, disk_farms, procVars, directories, farms_stream, farms_pushed, farms>>
    /\ UNCHANGED <<farm_sectors, sector_update, callback>>
    /\ UNCHANGED <<delayVars, hubVars, supVars, actionVars, pauseVars>>

\* Lines 441-470: the backing caches were replaced; seeding starts with an
\* empty index at farm 0.
ReplaceBackingCaches ==
    /\ pc = "replace_backing_caches"
    /\ future_plotted_pieces' = EmptyBag
    /\ seed_farm' = 0
    /\ seed_sector' = 0
    /\ IF FarmIndexFits(0)
       THEN pc' = "seeding" /\ result' = result
       ELSE pc' = "failed" /\ result' = "more_than_256_plots"
    /\ UNCHANGED <<initial_farm_states, poolVars, io_done, run_result, disk_farms, procVars, directories, farms_stream, farms_pushed, farms>>
    /\ UNCHANGED <<farm_sectors, plotted_pieces, sector_update, callback>>
    /\ UNCHANGED <<delayVars, hubVars, supVars, actionVars, pauseVars>>

\* Lines 476-488 with the farm index lost: every sector is added under
\* farm 0.
SeedPlottedSectorFarmZero(index, farm_index, plotted_sector, read_error) ==
    IF read_error THEN index ELSE add_sector(index, 0, plotted_sector)

\* Lines 476-488: a record that was read is added under the farm's index,
\* a failed read is logged and skipped.
SeedPlottedSector(index, farm_index, plotted_sector, read_error) ==
    IF read_error THEN index ELSE add_sector(index, farm_index, plotted_sector)

\* Lines 472-489: the next plotted sector of the current farm is read; the
\* farm decides what the sector holds and whether the read fails.
SeedSector(piece_indexes, read_error) ==
    /\ pc = "seeding"
    /\ seed_sector \in SectorIndexesOf(seed_farm)
    /\ LET plotted_sector == PlottedSector(seed_sector, piece_indexes)
       IN  /\ farm_sectors' = [farm_sectors EXCEPT ![seed_farm][seed_sector] =
                                    Some(SectorSlot(plotted_sector, read_error))]
           /\ future_plotted_pieces' =
                SeedPlottedSector(future_plotted_pieces, seed_farm, plotted_sector, read_error)
    /\ seed_sector' = seed_sector + 1
    /\ UNCHANGED <<seed_farm, plotted_pieces, sector_update, callback>>
    /\ UNCHANGED <<procVars, createVars, delayVars, hubVars, supVars, actionVars, pauseVars>>

\* Line 493 left out: the shared slot stays empty.
ReplaceNothing(index) == None

\* Line 493, plotted_pieces.lock().replace(future_plotted_pieces): the
\* shared slot holds the seeded index.
Replace(index) == Some(index)

\* Lines 464-510: the current farm has no further plotted sector. The loop
\* goes to the next farm; after the last farm the seeded index is moved
\* into the shared slot and the sync-progress forwarding is registered.
SeedFarmDone ==
    /\ pc = "seeding"
    /\ IF seed_farm + 1 < N
       THEN /\ seed_farm' = seed_farm + 1
            /\ seed_sector' = 0
            /\ IF FarmIndexFits(seed_farm + 1)
               THEN pc' = pc /\ result' = result
               ELSE pc' = "failed" /\ result' = "more_than_256_plots"
            /\ UNCHANGED <<plotted_pieces, sync_handlers, future_plotted_pieces>>
       ELSE /\ plotted_pieces' = Replace(future_plotted_pieces)
            /\ future_plotted_pieces' = EmptyBag
            /\ seed_farm' = 0
            /\ seed_sector' = 0
            /\ sync_handlers' = sync_handlers \cup {"forward"}
            /\ pc' = "initial_farm_states"
            /\ result' = result
    /\ UNCHANGED <<initial_farm_states, poolVars, io_done, run_result, disk_farms, procVars, directories, farms_stream, farms_pushed, farms>>
    /\ UNCHANGED <<plotting_delay_senders, delay_sent, handler_id, sync_events, delay_callback>>
    /\ UNCHANGED <<farm_sectors, sector_update, callback>>
    /\ UNCHANGED <<hubVars, supVars, actionVars, pauseVars>>

\* Lines 516-524: the state of one farm, from its total_sectors_count and
\* the plotted_sectors_count it answers with.
InitialFarmState(farm_index) ==
    [total_sectors_count |-> Cardinality(SectorIndexesOf(farm_index)),
     plotted_sectors_count |->
        Cardinality({s \in SectorIndexesOf(farm_index) : IsSome(farm_sectors[farm_index][s])})]

\* The orders in which the plotted_sectors_count queries can complete.
CompletionOrders ==
    {order \in [1 .. N -> FarmIndexes] :
        \A k, l \in 1 .. N : order[k] = order[l] => k = l}

\* Lines 526-527 with a FuturesUnordered: the states are collected in the
\* order in which the queries complete.
TryCollectUnordered(completed) == [k \in DOMAIN completed |-> completed[k][2]]

\* Lines 526-527, FuturesOrdered and try_collect: whatever order the
\* futures complete in, their outputs are collected in the order in which
\* the futures were pushed.
TryCollectOrdered(completed) ==
    LET sorted == SortByKey(completed)
    IN  [k \in DOMAIN sorted |-> sorted[k][2]]

\* Lines 512-710: the plotted sector counts were queried, the queries
\* completing in the given order; the listeners of every farm are
\* registered, the run futures, the channels and the three futures of the
\* farmer future are created and the Farmer is returned. Nothing is polled
\* yet.
InitialFarmStates(order) ==
    /\ pc = "initial_farm_states"
    /\ pc' = "created"
    /\ result' = "ok"
    /\ initial_farm_states' =
            TryCollectOrdered([k \in 1 .. N |-> <<order[k], InitialFarmState(order[k])>>])
    /\ farms_run_stream' = FarmIndexes
    /\ farms_fut_await' = "start"
    /\ pause_await' = "start"
    /\ UNCHANGED <<poolVars, io_done, run_result, disk_farms, procVars, directories, farms_stream, farms_pushed, farms>>
    /\ UNCHANGED <<farm_exit, farm_errors, reannounced>>
    /\ UNCHANGED <<plotting_thread_pools_count, thread_pools, thread_pools_cleared,
                   farm_thread_pools>>
    /\ UNCHANGED <<delayVars, indexVars, hubVars, actionVars>>

\* Lines 518-528: a plotted sector count query failed.
InitialFarmStatesFailed ==
    /\ pc = "initial_farm_states"
    /\ pc' = "failed"
    /\ result' = "plotted_sectors_count_failed"
    /\ UNCHANGED <<initial_farm_states, poolVars, io_done, run_result, disk_farms, procVars, directories, farms_stream, farms_pushed, farms>>
    /\ UNCHANGED <<delayVars, indexVars, hubVars, supVars, actionVars, pauseVars>>

-----------------------------------------------------------------------------
(* The Farmer handle: on_notification, action_sender, run *)

\* Lines 60-72: the notifications the model tells apart.
SectorUpdateNotification(farm_index) == [kind |-> "SectorUpdate", farm_index |-> farm_index]
FarmingNotification(farm_index) == [kind |-> "FarmingNotification", farm_index |-> farm_index]
FarmErrorNotification(farm_index) == [kind |-> "FarmError", farm_index |-> farm_index]
FarmerCacheSyncProgress(progress) == [kind |-> "FarmerCacheSyncProgress", progress |-> progress]

\* notifications.call_simple(&notification): every registered callback is
\* called with the notification; without a callback nothing happens.
call_simple(notification) ==
    last_notification' = IF notification_handlers > 0
                         THEN Some(notification)
                         ELSE last_notification

\* Lines 154-156, on_notification: a callback is added. The method borrows
\* the Farmer, which run() consumes.
OnNotification ==
    /\ pc = "created"
    /\ notification_handlers < MaxNotificationHandlers
    /\ notification_handlers' = notification_handlers + 1
    /\ UNCHANGED <<last_notification, farm_error_emitted>>
    /\ UNCHANGED <<procVars, createVars, delayVars, indexVars, supVars, actionVars, pauseVars>>

\* Lines 150-152, action_sender: the sender is cloned. action_senders counts
\* the clones; the Farmer's own sender lives while pc = "created".
CloneActionSender ==
    /\ pc = "created"
    /\ action_senders < MaxSenderClones
    /\ action_senders' = action_senders + 1
    /\ UNCHANGED <<action_queue, pause_plotting, pause_unseen>>
    /\ UNCHANGED <<procVars, createVars, delayVars, indexVars, hubVars, supVars, pauseVars>>

\* The holder of a clone drops it.
DropActionSender ==
    /\ action_senders > 0
    /\ action_senders' = action_senders - 1
    /\ UNCHANGED <<action_queue, pause_plotting, pause_unseen>>
    /\ UNCHANGED <<procVars, createVars, delayVars, indexVars, hubVars, supVars, pauseVars>>

\* Line 602, mpsc::channel(1): one buffered message plus one per sender that
\* sends.
ActionChannelCapacity == 1 + action_senders

\* Lines 83 and 627: farmer_fut, which owns the action receiver, the watch
\* channel, the run futures of the farms and the pause controller, exists
\* until the Farmer or the future of run is dropped.
FarmerFutAlive == farms_fut_await # "dropped"

\* A send on a clone waits: the receiver exists and the channel is full.
ActionSendWaits ==
    /\ action_senders > 0
    /\ FarmerFutAlive
    /\ Len(action_queue) >= ActionChannelCapacity

\* The holder of a clone sends FarmerAction::PausePlotting(pause).
SendAction(pause) ==
    /\ pc \in {"created", "running"}
    /\ action_senders > 0
    /\ Len(action_queue) < ActionChannelCapacity
    /\ action_queue' = Append(action_queue, pause)
    /\ UNCHANGED <<action_senders, pause_plotting, pause_unseen>>
    /\ UNCHANGED <<procVars, createVars, delayVars, indexVars, hubVars, supVars, pauseVars>>

\* Lines 609-619 without the `continue`: after one pair the loop waits for
\* the next change of the flag.
PauseAwaitNextNoContinue(flag, held) ==
    IF flag /\ held = 0
    THEN "get_thread_pools"
    ELSE "changed"

\* Lines 609-619 with the flag read once: the loop acquires pairs until it
\* holds them all, whatever the flag is by then.
PauseAwaitNextAcquiresAll(flag, held) ==
    IF held < plotting_thread_pools_count /\ (flag \/ held > 0)
    THEN "get_thread_pools"
    ELSE "changed"

\* Lines 609-619: what the loop of pause_plotting_actions_fut awaits next,
\* given the flag it read and the pairs it holds.
PauseAwaitNext(flag, held) ==
    IF flag /\ held < plotting_thread_pools_count
    THEN "get_thread_pools"
    ELSE "changed"

\* Line 618 with pop() in place of clear(): one pair is returned.
PauseHeldNextReturnsOne(flag, held) ==
    IF flag THEN held ELSE IF held > 0 THEN held - 1 ELSE 0

\* Lines 609-619 without the else branch: the pairs are kept on false.
PauseHeldNextKeeps(flag, held) == held

\* Lines 609-619: the pairs held after one pass of the loop; on false they
\* are all returned.
PauseHeldNext(flag, held) == IF flag THEN held ELSE 0

\* Line 618: the pairs thread_pools.clear() returns to the manager; a pass
\* that does not clear leaves the record of the last clear.
PauseClearedNext(flag, held) == IF flag THEN thread_pools_cleared ELSE held

\* A Farmer whose boxed futures outlive it: only the state of run changes.
FarmerDroppedKeepsFutures(next_pc, run_returned) ==
    /\ pc' = next_pc
    /\ run_result' = run_returned
    /\ UNCHANGED <<initial_farm_states, poolVars, io_done, disk_farms, procVars, directories, result,
                   farms_stream, farms_pushed, farms>>
    /\ UNCHANGED <<delayVars, indexVars, hubVars, supVars, actionVars, pauseVars>>

\* The Farmer, or the futures Farmer::run took out of it, are dropped: the
\* run futures of the farms, the re-announcement tasks, the thread pools
\* held and the receiving ends of the channels go with them.
FarmerDropped(next_pc, run_returned) ==
    /\ pc' = next_pc
    /\ run_result' = run_returned
    /\ farms_run_stream' = {}
    /\ farm_errors' = {}
    /\ farms_fut_await' = "dropped"
    /\ pause_await' = "dropped"
    /\ thread_pools' = 0
    /\ farm_thread_pools' = [i \in FarmIndexes |-> FALSE]
    /\ action_queue' = <<>>
    /\ initial_farm_states' = <<>>
    /\ UNCHANGED <<poolVars, io_done, disk_farms, procVars, directories, result, farms_stream, farms_pushed, farms>>
    /\ UNCHANGED <<farm_exit, reannounced, plotting_thread_pools_count, thread_pools_cleared>>
    /\ UNCHANGED <<action_senders, pause_plotting, pause_unseen>>
    /\ UNCHANGED <<delayVars, indexVars, hubVars>>

\* Lines 108-126: what run_future_in_dedicated_thread can fail to spawn.
SpawnErrors == {"none", "cache_worker", "farmer"}

\* Lines 108-128 with a spawn failure that is recorded and not returned:
\* run() goes on to the select.
RunContinuesAfterSpawnError(spawn_error) ==
    /\ pc = "created"
    /\ pc' = "running"
    /\ run_result' = CASE spawn_error = "none" -> run_result
                      [] spawn_error = "cache_worker" -> "err_spawn_cache_worker"
                      [] OTHER -> "err_spawn_farmer"
    /\ farms_fut_await' = "next"
    /\ pause_unseen' = FALSE
    /\ thread_pools' = PauseHeldNext(pause_plotting, thread_pools)
    /\ thread_pools_cleared' = PauseClearedNext(pause_plotting, thread_pools)
    /\ pause_await' = PauseAwaitNext(pause_plotting, thread_pools)
    /\ initial_farm_states' = <<>>
    /\ UNCHANGED <<poolVars, io_done, disk_farms, procVars, directories, result, farms_stream, farms_pushed, farms>>
    /\ UNCHANGED <<farms_run_stream, farm_exit, farm_errors, reannounced>>
    /\ UNCHANGED <<action_senders, action_queue, pause_plotting>>
    /\ UNCHANGED <<plotting_thread_pools_count, farm_thread_pools>>
    /\ UNCHANGED <<delayVars, indexVars, hubVars>>

\* Lines 92-137: the Farmer is consumed, its initial farm states and its
\* own action sender dropped (lines 104-106), and the cache worker and the farmer future are started on their threads; the
\* three futures of the select are polled up to their first await. When a
\* thread cannot be spawned run() returns the error and drops the rest.
Run(spawn_error) ==
    /\ pc = "created"
    /\ IF spawn_error = "none"
       THEN /\ pc' = "running"
            /\ farms_fut_await' = "next"
            /\ pause_unseen' = FALSE
            /\ thread_pools' = PauseHeldNext(pause_plotting, thread_pools)
            /\ thread_pools_cleared' = PauseClearedNext(pause_plotting, thread_pools)
            /\ pause_await' = PauseAwaitNext(pause_plotting, thread_pools)
            /\ initial_farm_states' = <<>>
            /\ UNCHANGED <<poolVars, io_done, run_result, disk_farms, procVars, directories, result, farms_stream,
                           farms_pushed, farms>>
            /\ UNCHANGED <<farms_run_stream, farm_exit, farm_errors, reannounced>>
            /\ UNCHANGED <<action_senders, action_queue, pause_plotting>>
            /\ UNCHANGED <<plotting_thread_pools_count, farm_thread_pools>>
            /\ UNCHANGED <<delayVars, indexVars, hubVars>>
       ELSE FarmerDropped("finished", IF spawn_error = "cache_worker"
                                      THEN "err_spawn_cache_worker"
                                      ELSE "err_spawn_farmer")

\* The future Farmer::run returns is dropped before it was polled.
DropFarmer ==
    /\ pc = "created"
    /\ FarmerDropped("dropped", run_result)

\* Lines 87 and 106 with the sender kept in the future of run.
OwnActionSenderKept == IF pc \in {"created", "running"} THEN 1 ELSE 0

\* Lines 87 and 106: the Farmer holds one sender of the action channel,
\* which run() drops before it spawns anything.
OwnActionSender == IF pc = "created" THEN 1 ELSE 0

\* Lines 627-638 with a loop that ends whenever the channel is empty.
ProcessActionsDoneWhenIdle == action_queue = <<>>

\* Lines 627-638: process_actions_fut ends when every sender is gone and
\* the channel is drained.
ProcessActionsDone ==
    /\ action_senders + OwnActionSender = 0
    /\ action_queue = <<>>

\* Lines 685-700 and 132-134: one branch of the select resolved, the farmer
\* future returns Ok(()), `result??` passes and run() returns Ok(()).
FarmerFinished ==
    /\ pc = "running"
    /\ \/ ProcessActionsDone
       \/ farms_fut_await = "resolved"
       \/ pause_await = "resolved"
    /\ FarmerDropped("finished", "ok_farmer_fut_ended")

\* Lines 128-131: the cache worker future ended; run() returns Ok(()).
CacheWorkerEnded ==
    /\ pc = "running"
    /\ FarmerDropped("finished", "ok_cache_worker_ended")

\* Lines 132-134: the thread of the farmer future ended without a result
\* (it panicked); the outer `?` of `result??` returns the error.
FarmerThreadPanicked ==
    /\ pc = "running"
    /\ FarmerDropped("finished", "err_farmer_thread")

-----------------------------------------------------------------------------
(* The piece cache's sync progress *)

\* Lines 430-438 without the unsubscription: the senders are drained and
\* the handler stays registered.
PlottingDelayHandlerKeepsId ==
    /\ delay_sent' = [i \in FarmIndexes |->
            delay_sent[i] + Cardinality({k \in DOMAIN plotting_delay_senders :
                                            plotting_delay_senders[k] = i})]
    /\ plotting_delay_senders' = <<>>
    /\ UNCHANGED <<handler_id, sync_handlers>>

\* Lines 430-438 with a handler id whose drop removes every handler of
\* on_sync_progress.
PlottingDelayHandlerDetachesAll ==
    /\ delay_sent' = [i \in FarmIndexes |->
            delay_sent[i] + Cardinality({k \in DOMAIN plotting_delay_senders :
                                            plotting_delay_senders[k] = i})]
    /\ plotting_delay_senders' = <<>>
    /\ handler_id' = None
    /\ sync_handlers' = {}

\* Lines 430-438, the plotting-delay handler: every sender still owned is
\* drained and sent on, then the handler id is taken out of its slot, which
\* drops it and removes the handler.
PlottingDelayHandler ==
    /\ delay_sent' = [i \in FarmIndexes |->
            delay_sent[i] + Cardinality({k \in DOMAIN plotting_delay_senders :
                                            plotting_delay_senders[k] = i})]
    /\ plotting_delay_senders' = <<>>
    /\ handler_id' = None
    /\ sync_handlers' = IF IsSome(handler_id)
                        THEN sync_handlers \ {Unwrap(handler_id)}
                        ELSE sync_handlers

\* The piece cache reports sync progress: the handlers registered on
\* on_sync_progress are called with the progress value, the plotting-delay
\* handler (lines 420-440) before the forwarding one (lines 500-510). The
\* cache worker is the future Farmer::run starts, so it reports nothing
\* before.
SyncProgress(progress) ==
    /\ pc = "running"
    /\ sync_events < MaxSyncEvents
    /\ sync_events' = sync_events + 1
    /\ UNCHANGED delay_callback
    /\ IF "plotting_delay" \in sync_handlers
       THEN PlottingDelayHandler
       ELSE UNCHANGED <<delay_sent, plotting_delay_senders, handler_id, sync_handlers>>
    /\ IF "forward" \in sync_handlers
       THEN call_simple(FarmerCacheSyncProgress(progress))
       ELSE UNCHANGED last_notification
    /\ UNCHANGED <<notification_handlers, farm_error_emitted>>
    /\ UNCHANGED <<procVars, createVars, indexVars, supVars, actionVars, pauseVars>>

-----------------------------------------------------------------------------
(* The listeners registered on every farm (lines 530-596) *)

\* A farm emits events from the tasks its run future drives.
FarmRuns(farm_index) ==
    /\ pc = "running"
    /\ farm_index \in farms_run_stream

\* Lines 570-580 without the delete_sector call.
on_plotted_sector_callback_no_delete(index, farm_index, plotted_sector, maybe_old_plotted_sector) ==
    add_sector(index, farm_index, plotted_sector)

\* Lines 565-581, on_plotted_sector_callback: under one lock of the shared
\* slot the replaced sector (if any) is deleted and the new one added.
on_plotted_sector_callback(index, farm_index, plotted_sector, maybe_old_plotted_sector) ==
    add_sector(
        IF IsSome(maybe_old_plotted_sector)
        THEN delete_sector(index, farm_index, Unwrap(maybe_old_plotted_sector))
        ELSE index,
        farm_index, plotted_sector)

\* What the farm reports as replaced: the sector its slot held before.
OldPlottedSector(f, s) ==
    IF IsSome(farm_sectors[f][s])
    THEN Some(Unwrap(farm_sectors[f][s]).plotted_sector)
    ELSE None

\* Lines 539-549 and 582-592: farm f reports
\* SectorPlottingDetails::Finished for sector slot s. The forwarding
\* listener runs, then the index listener; the shared slot must hold an
\* index ("Initial value was populated above").
SectorPlottingFinished(f, s, piece_indexes) ==
    /\ FarmRuns(f)
    /\ s \in SectorIndexesOf(f)
    /\ call_simple(SectorUpdateNotification(f))
    /\ LET plotted_sector == PlottedSector(s, piece_indexes)
       IN  /\ sector_update' = Some([farm_index |-> f,
                                     plotted_sector |-> plotted_sector,
                                     old_plotted_sector |-> OldPlottedSector(f, s)])
           /\ IF IsSome(plotted_pieces)
              THEN /\ plotted_pieces' = Some(on_plotted_sector_callback(
                            Unwrap(plotted_pieces), f, plotted_sector,
                            OldPlottedSector(f, s)))
                   /\ pc' = pc
              ELSE /\ plotted_pieces' = plotted_pieces
                   /\ pc' = "panicked"
           /\ farm_sectors' = [farm_sectors EXCEPT ![f][s] = Some(SectorSlot(plotted_sector, FALSE))]
    /\ UNCHANGED <<initial_farm_states, poolVars, io_done, run_result, disk_farms, procVars, directories, result, farms_stream, farms_pushed, farms>>
    /\ UNCHANGED <<seed_farm, seed_sector, future_plotted_pieces, callback>>
    /\ UNCHANGED <<notification_handlers, farm_error_emitted>>
    /\ UNCHANGED <<delayVars, supVars, actionVars, pauseVars>>

\* Lines 570-580 with the lock taken once for delete_sector and once for
\* add_sector.
ReleasesLockAfterDelete == FALSE

\* Lines 570-580: the guard of plotted_pieces.lock() lives until the end of
\* the block, across delete_sector and add_sector.
HoldsLockAfterDelete == TRUE

\* Lines 539-549, 582-592 and 571-574, step by step: farm f reports
\* SectorPlottingDetails::Finished for sector slot s, the forwarding
\* listener runs and the index listener's callback takes the lock of the
\* shared slot, which a callback of another farm then waits for.
PlottedSectorCallbackLocks(f, s, piece_indexes) ==
    /\ FarmRuns(f)
    /\ s \in SectorIndexesOf(f)
    /\ callback = None
    /\ IsSome(plotted_pieces)
    /\ call_simple(SectorUpdateNotification(f))
    /\ sector_update' = Some([farm_index |-> f,
                              plotted_sector |-> PlottedSector(s, piece_indexes),
                              old_plotted_sector |-> OldPlottedSector(f, s)])
    /\ farm_sectors' = [farm_sectors EXCEPT ![f][s] =
                            Some(SectorSlot(PlottedSector(s, piece_indexes), FALSE))]
    /\ callback' = Some([step |-> "delete_sector", locked |-> TRUE])
    /\ UNCHANGED <<seed_farm, seed_sector, future_plotted_pieces, plotted_pieces>>
    /\ UNCHANGED <<notification_handlers, farm_error_emitted>>
    /\ UNCHANGED <<procVars, createVars, delayVars, supVars, actionVars, pauseVars>>

\* Lines 576-578: the replaced sector, if there is one, is deleted.
PlottedSectorCallbackDeletes ==
    /\ IsSome(callback)
    /\ Unwrap(callback).step = "delete_sector"
    /\ LET u == Unwrap(sector_update)
       IN  plotted_pieces' =
                IF IsSome(u.old_plotted_sector)
                THEN Some(delete_sector(Unwrap(plotted_pieces), u.farm_index,
                                        Unwrap(u.old_plotted_sector)))
                ELSE plotted_pieces
    /\ callback' = Some([step |-> "add_sector", locked |-> HoldsLockAfterDelete])
    /\ UNCHANGED <<farm_sectors, seed_farm, seed_sector, future_plotted_pieces, sector_update>>
    /\ UNCHANGED <<procVars, createVars, delayVars, hubVars, supVars, actionVars, pauseVars>>

\* Lines 579-580: the new sector is added and the lock released.
PlottedSectorCallbackAdds ==
    /\ IsSome(callback)
    /\ Unwrap(callback).step = "add_sector"
    /\ LET u == Unwrap(sector_update)
       IN  plotted_pieces' = Some(add_sector(Unwrap(plotted_pieces), u.farm_index,
                                             u.plotted_sector))
    /\ callback' = None
    /\ UNCHANGED <<farm_sectors, seed_farm, seed_sector, future_plotted_pieces, sector_update>>
    /\ UNCHANGED <<procVars, createVars, delayVars, hubVars, supVars, actionVars, pauseVars>>

\* Lines 539-549 and 582-592: farm f reports a sector update that is not
\* Finished; it is forwarded and the index listener ignores it.
FarmSectorUpdate(f) ==
    /\ FarmRuns(f)
    /\ call_simple(SectorUpdateNotification(f))
    /\ UNCHANGED <<notification_handlers, farm_error_emitted>>
    /\ UNCHANGED <<procVars, createVars, delayVars, indexVars, supVars, actionVars, pauseVars>>

\* Lines 551-560: farm f reports a farming notification.
FarmFarmingNotification(f) ==
    /\ FarmRuns(f)
    /\ call_simple(FarmingNotification(f))
    /\ UNCHANGED <<notification_handlers, farm_error_emitted>>
    /\ UNCHANGED <<procVars, createVars, delayVars, indexVars, supVars, actionVars, pauseVars>>

-----------------------------------------------------------------------------
(* farms_fut, the supervisor of the farm run futures (lines 642-683) *)

\* Line 681 replaced by a return: the future resolves after the loop.
FarmsStreamExhaustedResolves == "resolved"

\* Line 681: after the loop the future awaits pending::<()>().
FarmsStreamExhausted == "pending"

\* Line 646: farms_stream.next() is awaited again, or yielded None.
FarmsFutNext(stream) == IF stream = {} THEN FarmsStreamExhausted ELSE "next"

\* Lines 648-650: the run future of farm_index returned Ok(()).
FarmExitedSuccessfully(farm_index) ==
    /\ farm_exit' = [farm_exit EXCEPT ![farm_index] = "ok"]
    /\ farms_run_stream' = farms_run_stream \ {farm_index}
    /\ farms_fut_await' = FarmsFutNext(farms_run_stream')
    /\ UNCHANGED <<farm_errors, hubVars>>

\* Lines 651-677 with the error returned from farms_fut: the stream with
\* the other run futures is dropped.
FarmExitedWithErrorReturns(farm_index) ==
    /\ farm_exit' = [farm_exit EXCEPT ![farm_index] = "err"]
    /\ farms_run_stream' = {}
    /\ farms_fut_await' = "resolved"
    /\ farm_errors' = farm_errors
    /\ farm_error_emitted' = [farm_error_emitted EXCEPT ![farm_index] = @ + 1]
    /\ call_simple(FarmErrorNotification(farm_index))
    /\ UNCHANGED notification_handlers

\* Lines 651-677: the run future of farm_index returned an error. It is
\* logged, a task that prints it again every FARM_ERROR_PRINT_INTERVAL is
\* spawned and kept in farm_errors, and FarmError is passed to call_simple.
FarmExitedWithError(farm_index) ==
    /\ farm_exit' = [farm_exit EXCEPT ![farm_index] = "err"]
    /\ farms_run_stream' = farms_run_stream \ {farm_index}
    /\ farms_fut_await' = FarmsFutNext(farms_run_stream')
    /\ farm_errors' = farm_errors \cup {farm_index}
    /\ farm_error_emitted' = [farm_error_emitted EXCEPT ![farm_index] = @ + 1]
    /\ call_simple(FarmErrorNotification(farm_index))
    /\ UNCHANGED notification_handlers

\* Lines 646-679: one turn of the loop of farms_fut, for the run future
\* that completed. A farm that exits drops the thread pools it holds.
FarmRunExits(farm_index, ok) ==
    /\ FarmRuns(farm_index)
    /\ farms_fut_await = "next"
    /\ IF ok
       THEN FarmExitedSuccessfully(farm_index)
       ELSE FarmExitedWithError(farm_index)
    /\ farm_thread_pools' = [farm_thread_pools EXCEPT ![farm_index] = FALSE]
    /\ UNCHANGED reannounced
    /\ UNCHANGED <<plotting_thread_pools_count, pause_await, thread_pools, thread_pools_cleared>>
    /\ UNCHANGED <<procVars, createVars, delayVars, indexVars, actionVars>>

\* Lines 660-669 with a notification next to the log line.
FarmErroredAndStoppedNotifies(farm_index) ==
    /\ farm_error_emitted' = [farm_error_emitted EXCEPT ![farm_index] = @ + 1]
    /\ call_simple(FarmErrorNotification(farm_index))
    /\ UNCHANGED notification_handlers

\* Lines 660-669: the task logs "Farm errored and stopped"; it holds no
\* handle of the notifications.
FarmErroredAndStopped(farm_index) == UNCHANGED hubVars

\* Lines 657-671 without the loop: the task sleeps and logs once.
ReannounceErrorOnce(farm_index) ==
    /\ pc = "running"
    /\ farm_index \in farm_errors
    /\ reannounced[farm_index] < 1
    /\ reannounced' = [reannounced EXCEPT ![farm_index] = @ + 1]
    /\ FarmErroredAndStopped(farm_index)
    /\ UNCHANGED <<farms_run_stream, farm_exit, farm_errors, farms_fut_await>>
    /\ UNCHANGED <<procVars, createVars, delayVars, indexVars, actionVars, pauseVars>>

\* Lines 657-671: the re-announcement task of farm_index wakes up after
\* its sleep.
ReannounceError(farm_index) ==
    /\ pc = "running"
    /\ farm_index \in farm_errors
    /\ reannounced[farm_index] < MaxReannounced
    /\ reannounced' = [reannounced EXCEPT ![farm_index] = @ + 1]
    /\ FarmErroredAndStopped(farm_index)
    /\ UNCHANGED <<farms_run_stream, farm_exit, farm_errors, farms_fut_await>>
    /\ UNCHANGED <<procVars, createVars, delayVars, indexVars, actionVars, pauseVars>>

-----------------------------------------------------------------------------
(* process_actions_fut and pause_plotting_actions_fut (lines 602-638) *)

\* Lines 627-638 with a receiver that forwards the first buffered action
\* and discards the ones queued behind it.
ProcessActionDiscardsQueued ==
    /\ pc = "running"
    /\ action_queue # <<>>
    /\ pause_plotting' = Head(action_queue)
    /\ pause_unseen' = TRUE
    /\ action_queue' = <<>>
    /\ UNCHANGED action_senders
    /\ UNCHANGED <<procVars, createVars, delayVars, indexVars, hubVars, supVars, pauseVars>>

\* Lines 627-638: the next action is received and its flag sent on the
\* watch channel, which marks the value as changed.
ProcessAction ==
    /\ pc = "running"
    /\ action_queue # <<>>
    /\ pause_plotting' = Head(action_queue)
    /\ pause_unseen' = TRUE
    /\ action_queue' = Tail(action_queue)
    /\ UNCHANGED action_senders
    /\ UNCHANGED <<procVars, createVars, delayVars, indexVars, hubVars, supVars, pauseVars>>

\* A manager that does not take the pairs handed out from its list.
FreeThreadPoolsNotTaken == plotting_thread_pools_count

\* Thread pool pairs the manager has to hand out.
FreeThreadPools ==
    plotting_thread_pools_count - thread_pools
        - Cardinality({i \in FarmIndexes : farm_thread_pools[i]})

\* Lines 627-638 with the watch sender dropped as soon as the action
\* channel is closed and drained, while the farmer future is still polled.
PausePlottingSenderGoneWithActions == action_senders > 0 \/ action_queue # <<>>

\* Lines 603 and 627-632: pause_plotting_sender is moved into
\* process_actions_fut, a branch of the select of farmer_fut (685-700). It
\* lives until that branch completes, which resolves the select in the
\* same poll, or until the farmer future is dropped.
PausePlottingSenderAlive == FarmerFutAlive

\* Lines 621-623: changed() fails when every value was seen and the watch
\* sender is gone; the loop breaks.
ChangedIsErr == ~pause_unseen /\ ~PausePlottingSenderAlive

\* Lines 609-622: changed() returned Ok; the flag is read and marked seen,
\* and on false the pairs held are returned.
PauseChanged ==
    /\ pc = "running"
    /\ pause_await = "changed"
    /\ pause_unseen \/ ChangedIsErr
    /\ pause_unseen' = FALSE
    /\ IF ChangedIsErr
       THEN /\ pause_await' = "resolved"
            /\ thread_pools' = 0
            /\ thread_pools_cleared' = thread_pools_cleared
       ELSE /\ thread_pools' = PauseHeldNext(pause_plotting, thread_pools)
            /\ thread_pools_cleared' = PauseClearedNext(pause_plotting, thread_pools)
            /\ pause_await' = PauseAwaitNext(pause_plotting, thread_pools)
    /\ UNCHANGED <<plotting_thread_pools_count, farm_thread_pools>>
    /\ UNCHANGED <<action_senders, action_queue, pause_plotting>>
    /\ UNCHANGED <<procVars, createVars, delayVars, indexVars, hubVars, supVars>>

\* Lines 612-615 and 609-619: get_thread_pools() returned a pair, which is
\* pushed; the loop continues and reads the flag again.
PauseAcquired ==
    /\ pc = "running"
    /\ pause_await = "get_thread_pools"
    /\ FreeThreadPools > 0
    /\ pause_unseen' = FALSE
    /\ thread_pools' = PauseHeldNext(pause_plotting, thread_pools + 1)
    /\ thread_pools_cleared' = PauseClearedNext(pause_plotting, thread_pools + 1)
    /\ pause_await' = PauseAwaitNext(pause_plotting, thread_pools + 1)
    /\ UNCHANGED <<plotting_thread_pools_count, farm_thread_pools>>
    /\ UNCHANGED <<action_senders, action_queue, pause_plotting>>
    /\ UNCHANGED <<procVars, createVars, delayVars, indexVars, hubVars, supVars>>

\* A farm takes a thread pool pair from the manager to plot a sector.
FarmGetsThreadPools(f) ==
    /\ FarmRuns(f)
    /\ ~farm_thread_pools[f]
    /\ FreeThreadPools > 0
    /\ farm_thread_pools' = [farm_thread_pools EXCEPT ![f] = TRUE]
    /\ UNCHANGED <<plotting_thread_pools_count, pause_await, thread_pools, thread_pools_cleared>>
    /\ UNCHANGED <<procVars, createVars, delayVars, indexVars, hubVars, supVars, actionVars>>

\* A farm has plotted its sector and returns the pair.
FarmReturnsThreadPools(f) ==
    /\ FarmRuns(f)
    /\ farm_thread_pools[f]
    /\ farm_thread_pools' = [farm_thread_pools EXCEPT ![f] = FALSE]
    /\ UNCHANGED <<plotting_thread_pools_count, pause_await, thread_pools, thread_pools_cleared>>
    /\ UNCHANGED <<procVars, createVars, delayVars, indexVars, hubVars, supVars, actionVars>>

-----------------------------------------------------------------------------
(* The specification of create_farmer followed by a running farmer whose
   handle nobody registered a callback on or cloned the action sender of *)

Next ==
    \/ \E l3_cache_groups \in 1 .. MaxL3CacheGroups, start_error \in StartErrors :
            Start(L3CacheGroups(l3_cache_groups), start_error)
    \/ \E i \in AllFarmIndexes : FarmConstructed(i)
    \/ \E i \in AllFarmIndexes, error \in {"insufficient_allocated_space", "farm_error"} :
            FarmConstructionFailed(i, error)
    \/ ReplaceBackingCaches
    \/ \E piece_indexes \in PieceIndexesChoices, read_error \in BOOLEAN :
            SeedSector(piece_indexes, read_error)
    \/ SeedFarmDone
    \/ /\ pc = "initial_farm_states"
       /\ \E order \in CompletionOrders : InitialFarmStates(order)
    \/ InitialFarmStatesFailed
    \/ \E spawn_error \in SpawnErrors : Run(spawn_error)
    \/ FarmerFinished
    \/ CacheWorkerEnded
    \/ \E progress \in ProgressValues : SyncProgress(progress)
    \/ \E f \in AllFarmIndexes, s \in {0, 1}, piece_indexes \in PieceIndexesChoices :
            SectorPlottingFinished(f, s, piece_indexes)

Spec == Init /\ [][Next]_vars

-----------------------------------------------------------------------------
(* The specification of create_farmer for large configurations: 256 farms
   or more, none with a plotted sector, constructed in the order of their
   indexes *)

InitMany == InitWith((ManyFarms - 1) .. ManyFarms)

\* Lines 399-418 for the construction future of the lowest index left.
FarmConstructedInOrder == FarmConstructed(Len(farms_pushed))

\* Lines 512-528 with the queries completing in the order of the farms.
InitialFarmStatesInOrder == InitialFarmStates([k \in 1 .. N |-> k - 1])

NextMany ==
    \/ \E l3_cache_groups \in 1 .. MaxL3CacheGroups, start_error \in StartErrors :
            Start(L3CacheGroups(l3_cache_groups), start_error)
    \/ FarmConstructedInOrder
    \/ ReplaceBackingCaches
    \/ SeedFarmDone
    \/ InitialFarmStatesInOrder
    \/ InitialFarmStatesFailed

SpecMany == InitMany /\ [][NextMany]_vars

-----------------------------------------------------------------------------
(* The Farmer as create_farmer returns it for farms_count farms without a
   plotted sector *)

CreatedFarmer(farms_count, l3_cache_groups) ==
    /\ SupervisorIdle
    /\ disk_farms = [k \in 1 .. farms_count |-> DiskFarm(k - 1)]
    /\ directories = [d \in FarmIndexes |-> "exists"]
    /\ pc = "created"
    /\ result = "ok"
    /\ farms_stream = {}
    /\ farms_pushed = <<>>
    /\ farms = [k \in 1 .. farms_count |-> FarmOf(DiskFarm(k - 1))]
    /\ io_done = {"directories", "node_client", "farms"}
    /\ hardware_core_sets = L3CacheGroups(l3_cache_groups)
    /\ plotting_thread_pool_core_indices =
            PlottingCoreIndices(hardware_core_sets, farms_count)
    /\ replotting_thread_pool_core_indices =
            ReplottingCoreIndices(hardware_core_sets, farms_count)
    /\ plotting_thread_pool_manager = zip(plotting_thread_pool_core_indices,
                                          replotting_thread_pool_core_indices)
    /\ run_result = "none"
    /\ plotting_delay_senders = [k \in 1 .. farms_count |-> k - 1]
    /\ delay_sent = [i \in FarmIndexes |-> 0]
    /\ handler_id = Some("plotting_delay")
    /\ sync_handlers = {"plotting_delay", "forward"}
    /\ sync_events = 0
    /\ delay_callback = "idle"
    /\ farm_sectors = [i \in FarmIndexes |-> [s \in SectorIndexesOf(i) |-> None]]
    /\ seed_farm = 0
    /\ seed_sector = 0
    /\ future_plotted_pieces = EmptyBag
    /\ plotted_pieces = Some(EmptyBag)
    /\ sector_update = None
    /\ callback = None
    /\ notification_handlers = 0
    /\ last_notification = None
    /\ farm_error_emitted = [i \in FarmIndexes |-> 0]
    /\ farms_run_stream = FarmIndexes
    /\ farm_exit = [i \in FarmIndexes |-> "none"]
    /\ farm_errors = {}
    /\ reannounced = [i \in FarmIndexes |-> 0]
    /\ farms_fut_await = "start"
    /\ action_senders = 0
    /\ action_queue = <<>>
    /\ pause_plotting = FALSE
    /\ pause_unseen = FALSE
    /\ plotting_thread_pools_count = Len(plotting_thread_pool_core_indices)
    /\ pause_await = "start"
    /\ thread_pools = 0
    /\ thread_pools_cleared = 0
    /\ farm_thread_pools = [i \in FarmIndexes |-> FALSE]
    /\ initial_farm_states = [k \in 1 .. farms_count |-> InitialFarmState(k - 1)]

\* The state of create_farmer at line 420: the farms are constructed and
\* ordered, the plotting-delay handler is not registered yet.
FarmsConstructed(farms_count, l3_cache_groups) ==
    /\ SupervisorIdle
    /\ disk_farms = [k \in 1 .. farms_count |-> DiskFarm(k - 1)]
    /\ directories = [d \in FarmIndexes |-> "exists"]
    /\ pc = "lock_handler_id"
    /\ result = "none"
    /\ farms_stream = {}
    /\ farms_pushed = <<>>
    /\ farms = [k \in 1 .. farms_count |-> FarmOf(DiskFarm(k - 1))]
    /\ io_done = {"directories", "node_client", "farms"}
    /\ hardware_core_sets = L3CacheGroups(l3_cache_groups)
    /\ plotting_thread_pool_core_indices =
            PlottingCoreIndices(hardware_core_sets, farms_count)
    /\ replotting_thread_pool_core_indices =
            ReplottingCoreIndices(hardware_core_sets, farms_count)
    /\ plotting_thread_pool_manager = zip(plotting_thread_pool_core_indices,
                                          replotting_thread_pool_core_indices)
    /\ run_result = "none"
    /\ plotting_delay_senders = [k \in 1 .. farms_count |-> k - 1]
    /\ delay_sent = [i \in FarmIndexes |-> 0]
    /\ handler_id = None
    /\ sync_handlers = {}
    /\ sync_events = 0
    /\ delay_callback = "idle"
    /\ farm_sectors = [i \in FarmIndexes |-> [s \in SectorIndexesOf(i) |-> None]]
    /\ seed_farm = 0
    /\ seed_sector = 0
    /\ future_plotted_pieces = EmptyBag
    /\ plotted_pieces = None
    /\ sector_update = None
    /\ callback = None
    /\ notification_handlers = 0
    /\ last_notification = None
    /\ farm_error_emitted = [i \in FarmIndexes |-> 0]
    /\ farms_run_stream = {}
    /\ farm_exit = [i \in FarmIndexes |-> "none"]
    /\ farm_errors = {}
    /\ reannounced = [i \in FarmIndexes |-> 0]
    /\ farms_fut_await = "none"
    /\ action_senders = 0
    /\ action_queue = <<>>
    /\ pause_plotting = FALSE
    /\ pause_unseen = FALSE
    /\ plotting_thread_pools_count = Len(plotting_thread_pool_core_indices)
    /\ pause_await = "none"
    /\ thread_pools = 0
    /\ thread_pools_cleared = 0
    /\ farm_thread_pools = [i \in FarmIndexes |-> FALSE]
    /\ initial_farm_states = <<>>

-----------------------------------------------------------------------------
(* The specification of the thread pool partitioning: create_farmer up to
   the thread pool manager, on machines of every bounded topology *)

InitPools == InitWith(1 .. MaxFarms)

NextPools ==
    \E cpu_core_sets \in CpuCoreSetsChoices, start_error \in StartErrors :
        Start(cpu_core_sets, start_error)

SpecPools == InitPools /\ [][NextPools]_vars

-----------------------------------------------------------------------------
(* The specification of the index listener: a running farmer whose farms
   report finished sectors, the callback taken step by step *)

InitIndex == \E farms_count \in 1 .. MaxFarms : CreatedFarmer(farms_count, 1)

NextIndex ==
    \/ OnNotification
    \/ \E spawn_error \in SpawnErrors : Run(spawn_error)
    \/ \E f \in AllFarmIndexes, s \in {0, 1}, piece_indexes \in PieceIndexesChoices :
            PlottedSectorCallbackLocks(f, s, piece_indexes)
    \/ PlottedSectorCallbackDeletes
    \/ PlottedSectorCallbackAdds

SpecIndex == InitIndex /\ [][NextIndex]_vars

-----------------------------------------------------------------------------
(* The specification of the registration of the plotting-delay handler
   (lines 420-440), statement by statement, with sync-progress events that
   arrive from the moment the handler is registered *)

\* Lines 424-426 with the handler id computed before the slot is locked.
RegistrationLocksLate == FALSE

\* Lines 424-426, `handler_id.lock().replace(farmer_cache.on_sync_progress(..))`:
\* the receiver handler_id.lock() is evaluated before the argument, so the
\* guard is held while on_sync_progress registers the handler and until
\* replace has stored the id.
RegistrationHoldsLock == TRUE

\* The mutex of the handler id slot is held by create_farmer.
HandlerIdLocked ==
    RegistrationHoldsLock /\ pc \in {"on_sync_progress", "replace_handler_id"}

\* Line 424-425: handler_id.lock().
LockHandlerId ==
    /\ pc = "lock_handler_id"
    /\ pc' = "on_sync_progress"
    /\ UNCHANGED <<initial_farm_states, poolVars, io_done, run_result, disk_farms, procVars, directories,
                   result, farms_stream, farms_pushed, farms>>
    /\ UNCHANGED <<delayVars, indexVars, hubVars, supVars, actionVars, pauseVars>>

\* Line 426: farmer_cache.on_sync_progress(..) registers the handler and
\* returns its id.
OnSyncProgress ==
    /\ pc = "on_sync_progress"
    /\ pc' = "replace_handler_id"
    /\ sync_handlers' = sync_handlers \cup {"plotting_delay"}
    /\ UNCHANGED <<plotting_delay_senders, delay_sent, handler_id, sync_events, delay_callback>>
    /\ UNCHANGED <<initial_farm_states, poolVars, io_done, run_result, disk_farms, procVars, directories,
                   result, farms_stream, farms_pushed, farms>>
    /\ UNCHANGED <<indexVars, hubVars, supVars, actionVars, pauseVars>>

\* Line 426: replace(..) stores the id; the guard is dropped at the end of
\* the statement.
ReplaceHandlerId ==
    /\ pc = "replace_handler_id"
    /\ pc' = "replace_backing_caches"
    /\ handler_id' = Some("plotting_delay")
    /\ UNCHANGED <<plotting_delay_senders, delay_sent, sync_handlers, sync_events,
                   delay_callback>>
    /\ UNCHANGED <<initial_farm_states, poolVars, io_done, run_result, disk_farms, procVars, directories,
                   result, farms_stream, farms_pushed, farms>>
    /\ UNCHANGED <<indexVars, hubVars, supVars, actionVars, pauseVars>>

\* Lines 430-434: a sync-progress event calls the registered handler,
\* which drains the senders and sends on each.
PlottingDelayCallbackSends ==
    /\ "plotting_delay" \in sync_handlers
    /\ delay_callback = "idle"
    /\ sync_events < MaxSyncEvents
    /\ sync_events' = sync_events + 1
    /\ delay_sent' = [i \in FarmIndexes |->
            delay_sent[i] + Cardinality({k \in DOMAIN plotting_delay_senders :
                                            plotting_delay_senders[k] = i})]
    /\ plotting_delay_senders' = <<>>
    /\ delay_callback' = "take_handler_id"
    /\ UNCHANGED <<handler_id, sync_handlers>>
    /\ UNCHANGED <<procVars, createVars, indexVars, hubVars, supVars, actionVars, pauseVars>>

\* Line 437: handler_id.lock().take(), once the mutex is free; the id
\* taken out is dropped, which removes the handler.
PlottingDelayCallbackTakes ==
    /\ delay_callback = "take_handler_id"
    /\ ~HandlerIdLocked
    /\ delay_callback' = "idle"
    /\ PlottingDelayHandler
    /\ UNCHANGED sync_events
    /\ UNCHANGED <<procVars, createVars, indexVars, hubVars, supVars, actionVars, pauseVars>>

InitDelay ==
    \E farms_count \in 1 .. MaxFarms, l3_cache_groups \in 1 .. MaxL3CacheGroups :
        FarmsConstructed(farms_count, l3_cache_groups)

NextDelay ==
    \/ LockHandlerId
    \/ OnSyncProgress
    \/ ReplaceHandlerId
    \/ PlottingDelayCallbackSends
    \/ PlottingDelayCallbackTakes
    \/ ReplaceBackingCaches
    \/ SeedFarmDone
    \/ /\ pc = "initial_farm_states"
       /\ \E order \in CompletionOrders : InitialFarmStates(order)

SpecDelay == InitDelay /\ [][NextDelay]_vars

-----------------------------------------------------------------------------
(* The specification of the supervisor: a created Farmer, its callbacks and
   senders, and farms that emit events and exit *)

InitSup == \E farms_count \in 1 .. MaxFarms : CreatedFarmer(farms_count, 1)

NextSup ==
    \/ OnNotification
    \/ CloneActionSender
    \/ DropActionSender
    \/ \E spawn_error \in SpawnErrors : Run(spawn_error)
    \/ DropFarmer
    \/ FarmerFinished
    \/ CacheWorkerEnded
    \/ FarmerThreadPanicked
    \/ \E i \in AllFarmIndexes, ok \in BOOLEAN : FarmRunExits(i, ok)
    \/ \E i \in AllFarmIndexes : FarmSectorUpdate(i)
    \/ \E i \in AllFarmIndexes : FarmFarmingNotification(i)
    \/ \E i \in AllFarmIndexes : ReannounceError(i)

SpecSup == InitSup /\ [][NextSup]_vars

\* The tokio timer wakes every spawned re-announcement task when its sleep
\* (line 659) has elapsed.
FairSpecSup ==
    /\ SpecSup
    /\ \A i \in AllFarmIndexes : WF_vars(ReannounceError(i))

-----------------------------------------------------------------------------
(* The specification of the farm events: create_farmer from the
   construction of the farms, which complete in any order, to the events
   the running farms raise *)

\* Lines 530-535: enumerate() over the restored farms gives the farm at
\* position k the index k - 1, which its listeners and its run future
\* capture. This is the index captured for the farm built from entry i of
\* disk_farms.
ListenerFarmIndex(i) ==
    (CHOOSE k \in DOMAIN farms : farms[k] = FarmOf(disk_farms[i + 1])) - 1

NextEvents ==
    \/ \E start_error \in {"none"} : Start(L3CacheGroups(1), start_error)
    \/ \E i \in AllFarmIndexes : FarmConstructed(i)
    \/ ReplaceBackingCaches
    \/ SeedFarmDone
    \/ /\ pc = "initial_farm_states"
       /\ \E order \in CompletionOrders : InitialFarmStates(order)
    \/ OnNotification
    \/ \E spawn_error \in {"none"} : Run(spawn_error)
    \/ /\ pc = "running"
       /\ \E i \in FarmIndexes :
            \/ FarmSectorUpdate(ListenerFarmIndex(i))
            \/ FarmFarmingNotification(ListenerFarmIndex(i))
            \/ \E ok \in BOOLEAN : FarmRunExits(ListenerFarmIndex(i), ok)
    \/ \E progress \in ProgressValues : SyncProgress(progress)

SpecEvents == Init /\ [][NextEvents]_vars

-----------------------------------------------------------------------------
(* The specification of pausing: a created Farmer, PausePlotting actions and
   farms that take and return thread pools *)

InitPause ==
    \E farms_count \in 1 .. MaxFarms, l3_cache_groups \in 1 .. MaxL3CacheGroups :
        CreatedFarmer(farms_count, l3_cache_groups)

NextPause ==
    \/ CloneActionSender
    \/ DropActionSender
    \/ \E pause \in BOOLEAN : SendAction(pause)
    \/ \E spawn_error \in SpawnErrors : Run(spawn_error)
    \/ DropFarmer
    \/ FarmerFinished
    \/ CacheWorkerEnded
    \/ ProcessAction
    \/ PauseChanged
    \/ PauseAcquired
    \/ \E f \in AllFarmIndexes : FarmGetsThreadPools(f)
    \/ \E f \in AllFarmIndexes : FarmReturnsThreadPools(f)

SpecPause == InitPause /\ [][NextPause]_vars

\* The same handle, controller and farms, with farms whose run futures
\* complete (646-679) while the controller runs.
NextPauseExits ==
    \/ CloneActionSender
    \/ DropActionSender
    \/ \E pause \in BOOLEAN : SendAction(pause)
    \/ \E spawn_error \in SpawnErrors : Run(spawn_error)
    \/ DropFarmer
    \/ FarmerFinished
    \/ CacheWorkerEnded
    \/ ProcessAction
    \/ PauseChanged
    \/ PauseAcquired
    \/ \E f \in AllFarmIndexes : FarmGetsThreadPools(f)
    \/ \E f \in AllFarmIndexes : FarmReturnsThreadPools(f)
    \/ \E f \in AllFarmIndexes, ok \in BOOLEAN : FarmRunExits(f, ok)

SpecPauseExits == InitPause /\ [][NextPauseExits]_vars

\* The farmer future runs on its own thread, so a branch of its select that
\* can proceed does; the thread pool manager wakes the waiters in turn, so
\* the controller, which waits whenever it wants a pair, gets one if pairs
\* keep being returned; a farm that holds a pair returns it.
FairSpecPause ==
    /\ SpecPause
    /\ WF_vars(ProcessAction)
    /\ WF_vars(PauseChanged)
    /\ SF_vars(PauseAcquired)
    /\ \A f \in AllFarmIndexes : WF_vars(FarmReturnsThreadPools(f))

\* The thread that run() dedicates to the farmer future polls it whenever
\* it is woken: a queued action is processed and a completed branch of the
\* select resolves the future.
FairSpecFinish ==
    /\ SpecPause
    /\ WF_vars(ProcessAction)
    /\ WF_vars(FarmerFinished)



-----------------------------------------------------------------------------
(* Properties of create_farmer *)

\* create_farmer is past the construction loop, which only happens when
\* every construction succeeded.
AllFarmsConstructed ==
    \/ pc \in {"replace_backing_caches", "seeding", "initial_farm_states",
               "created", "running", "finished", "panicked"}
    \/ pc = "failed" /\ result \in {"more_than_256_plots", "plotted_sectors_count_failed"}

\* C1: once all N >= 1 constructions have succeeded, in whatever order they
\* completed, there are exactly N farm handles and the handle at index i is
\* the farm built from disk_farms[i].
C1_FarmsInInputOrder ==
    (N >= 1 /\ AllFarmsConstructed) =>
        /\ Len(farms) = N
        /\ \A i \in FarmIndexes : farms[i + 1] = FarmOf(disk_farms[i + 1])

\* Several farms were constructed and the order was just restored.
C1_Witness ==
    /\ pc = "replace_backing_caches"
    /\ N >= 2
    /\ Len(farms) = N
    /\ farms_pushed = <<>>

\* C5: the first sync-progress event sends all N delay signals in that one
\* callback and removes the handler (its id slot is emptied); a later event
\* sends nothing, so no signal is ever sent twice.
C5_DelayReleasedOnceOnFirstEvent ==
    /\ [][sync_events' = sync_events + 1 =>
            IF sync_events = 0
            THEN /\ \A i \in FarmIndexes : delay_sent[i] = 0 /\ delay_sent'[i] = 1
                 /\ plotting_delay_senders' = <<>>
                 /\ "plotting_delay" \notin sync_handlers'
                 /\ handler_id' = None
            ELSE /\ delay_sent' = delay_sent
                 /\ "plotting_delay" \notin sync_handlers']_vars
    /\ [](\A i \in FarmIndexes : delay_sent[i] <= 1)

\* A second sync-progress event happened with several farms, each signal
\* sent once.
C5_Witness ==
    /\ sync_events >= 2
    /\ N >= 2
    /\ \A i \in FarmIndexes : delay_sent[i] = 1

\* C6: as long as the piece cache has not reported sync progress, no farm's
\* delay signal was sent, and from their creation on the handler owns all N
\* senders.
C6_NoReleaseBeforeFirstSync ==
    sync_events = 0 =>
        /\ \A i \in FarmIndexes : delay_sent[i] = 0
        /\ pc \notin {"start", "failed"} => Len(plotting_delay_senders) = N

\* The farmer runs, the handler is registered and the cache has not reported
\* yet: the gates of several farms are held.
C6_Witness ==
    /\ pc = "running"
    /\ sync_events = 0
    /\ delay_callback = "idle"
    /\ N >= 2
    /\ "plotting_delay" \in sync_handlers
    /\ \A i \in FarmIndexes : delay_sent[i] = 0


-----------------------------------------------------------------------------
(* Properties of the plotted-piece index *)

\* The sector slots whose current record is in the index: those that hold a
\* plotted sector whose read did not fail (a slot written by a finished
\* event holds a record that was not read at startup).
IndexedSlots ==
    {fs \in {<<f, s>> : f \in FarmIndexes, s \in {0, 1}} :
        /\ fs[2] \in SectorIndexesOf(fs[1])
        /\ IsSome(farm_sectors[fs[1]][fs[2]])
        /\ ~Unwrap(farm_sectors[fs[1]][fs[2]]).read_error}

\* The entries of the current records of those slots, each under its farm.
IndexedEntries ==
    UNION {SectorEntries(fs[1], Unwrap(farm_sectors[fs[1]][fs[2]]).plotted_sector) :
            fs \in IndexedSlots}

\* The pieces the index knows.
Pieces(index) == {e[1] : e \in BagToSet(index)}

\* The pieces of a plotted sector.
SectorPieces(plotted_sector) ==
    {plotted_sector.piece_indexes[o] : o \in DOMAIN plotted_sector.piece_indexes}

\* C7: while seeding, the index under construction holds exactly the
\* entries of the sectors read successfully so far, each under its farm's
\* index; a failed read leaves it as it was and seeding goes on. What is
\* installed in the shared slot is that index over all farms.
C7_SeededIndexIsReadableSectors ==
    /\ pc = "seeding" =>
            /\ future_plotted_pieces = SetToBag(IndexedEntries)
            /\ plotted_pieces = None
    /\ pc \in {"initial_farm_states", "created"} =>
            plotted_pieces = Some(SetToBag(IndexedEntries))

\* The index was installed although the first sector of farm 0 could not be
\* read; the next sector of farm 0 and a sector of farm 1 were seeded.
C7_Witness ==
    /\ pc = "initial_farm_states"
    /\ N >= 2
    /\ IsSome(farm_sectors[0][0]) /\ Unwrap(farm_sectors[0][0]).read_error
    /\ <<0, 1>> \in IndexedSlots
    /\ <<1, 0>> \in IndexedSlots
    /\ IsSome(plotted_pieces)
    /\ BagCardinality(Unwrap(plotted_pieces)) = 4

\* The statement of C8 read by piece identity: after a finished event with
\* a replaced record the index knows every piece of the new record and
\* none of the pieces only the old record had.
C8_NoOldPieceInIndex ==
    (IsSome(sector_update) /\ IsSome(plotted_pieces)
        /\ IsSome(Unwrap(sector_update).old_plotted_sector)) =>
        LET u == Unwrap(sector_update)
            old == Unwrap(u.old_plotted_sector)
        IN  /\ SectorEntries(u.farm_index, u.plotted_sector)
                    \subseteq BagToSet(Unwrap(plotted_pieces))
            /\ \A p \in SectorPieces(old) \ SectorPieces(u.plotted_sector) :
                    p \notin Pieces(Unwrap(plotted_pieces))

\* C8 (amended): after a finished event of farm f the index holds every
\* piece of the new record under farm f and that sector; when the event
\* carried a replaced record, no piece that only the old record had is
\* still attributed to farm f and that sector (other farms and sectors keep
\* their entries for it); when it carried none, the new entries are added
\* and nothing else changes.
C8_ReplacedSectorEntriesRemoved ==
    /\ [](IsSome(sector_update) /\ IsSome(plotted_pieces) =>
            LET u == Unwrap(sector_update)
                index == Unwrap(plotted_pieces)
            IN  /\ \A e \in SectorEntries(u.farm_index, u.plotted_sector) :
                        CopiesIn(e, index) = 1
                /\ IsSome(u.old_plotted_sector) =>
                    \A p \in SectorPieces(Unwrap(u.old_plotted_sector))
                                \ SectorPieces(u.plotted_sector) :
                        \A e \in BagToSet(index) :
                            ~(e[1] = p /\ e[2] = u.farm_index
                                /\ e[3] = u.plotted_sector.sector_index))
    /\ [][(sector_update' # sector_update /\ IsSome(plotted_pieces)
            /\ Unwrap(sector_update').old_plotted_sector = None) =>
                plotted_pieces' = Some(Unwrap(plotted_pieces) (+)
                    SetToBag(SectorEntries(Unwrap(sector_update').farm_index,
                                           Unwrap(sector_update').plotted_sector)))]_vars

\* Farm 0 replotted a sector whose old record was in the index, and a piece
\* only the old record had is also plotted by farm 1.
C8_Witness ==
    /\ pc = "running"
    /\ IsSome(sector_update)
    /\ Unwrap(sector_update).farm_index = 0
    /\ IsSome(Unwrap(sector_update).old_plotted_sector)
    /\ Unwrap(sector_update).plotted_sector.piece_indexes = <<2, 3>>
    /\ Unwrap(Unwrap(sector_update).old_plotted_sector).piece_indexes = <<1, 2>>
    /\ N >= 2
    /\ <<1, 1, 0, 0>> \in BagToSet(Unwrap(plotted_pieces))
    /\ <<2, 0, Unwrap(sector_update).plotted_sector.sector_index, 0>>
            \in BagToSet(Unwrap(plotted_pieces))

\* C9: whenever the shared slot holds an index, it holds exactly one entry
\* per piece of the current record of every slot that was seeded or
\* reported finished, and nothing of a record that was replaced: the
\* entries under a farm and sector are those of that slot's current record.
C9_IndexIsCurrentRecords ==
    IsSome(plotted_pieces) =>
        /\ Unwrap(plotted_pieces) = SetToBag(IndexedEntries)
        /\ \A e \in BagToSet(Unwrap(plotted_pieces)) :
                /\ <<e[2], e[3]>> \in IndexedSlots
                /\ e \in SectorEntries(e[2], Unwrap(farm_sectors[e[2]][e[3]]).plotted_sector)

\* Two farms are running, farm 1 has replotted its sector 0 and farm 0 has
\* plotted a sector after startup.
C9_Witness ==
    /\ pc = "running"
    /\ N >= 2
    /\ IsSome(sector_update)
    /\ Unwrap(sector_update).farm_index = 1
    /\ IsSome(Unwrap(sector_update).old_plotted_sector)
    /\ Unwrap(Unwrap(sector_update).old_plotted_sector).piece_indexes
            # Unwrap(sector_update).plotted_sector.piece_indexes
    /\ <<0, 0>> \in IndexedSlots
    /\ <<0, 1>> \in IndexedSlots

-----------------------------------------------------------------------------
(* Properties of the supervisor of the farm run futures *)

\* The farms whose run future returned an error.
FailedFarms == {i \in FarmIndexes : farm_exit[i] = "err"}

\* An event of farm j can happen and, with a callback registered, reaches
\* the callbacks as farm j's notification.
EventsDelivered(j) ==
    /\ ENABLED (/\ FarmSectorUpdate(j)
                /\ notification_handlers > 0 =>
                        last_notification' = Some(SectorUpdateNotification(j)))
    /\ ENABLED (/\ FarmFarmingNotification(j)
                /\ notification_handlers > 0 =>
                        last_notification' = Some(FarmingNotification(j)))

\* C2: while the farmer runs, whatever set of farms has exited with an
\* error and in whatever order, every farm whose run future has not
\* returned is still in the stream the supervisor polls and its sector
\* updates and farming notifications are still delivered; the step in which
\* a farm fails removes that farm's run future only and leaves the farmer
\* running.
C2_OtherFarmsKeepRunning ==
    /\ [](pc = "running" =>
            \A j \in FarmIndexes : farm_exit[j] = "none" =>
                j \in farms_run_stream /\ EventsDelivered(j))
    /\ [][\A i \in FarmIndexes :
            (farm_exit[i] = "none" /\ farm_exit'[i] = "err") =>
                /\ pc' = "running"
                /\ farms_run_stream' = farms_run_stream \ {i}]_vars

\* Two farms have failed and a notification of a third farm, which still
\* runs, was delivered after the failures.
C2_Witness ==
    /\ pc = "running"
    /\ Cardinality(FailedFarms) >= 2
    /\ \E j \in farms_run_stream :
            /\ farm_exit[j] = "none"
            /\ last_notification = Some(FarmingNotification(j))

\* C3: a farm has exactly one FarmError notification passed to the
\* notification handlers if its run future returned an error and none
\* otherwise (it returned Ok or still runs); the notification is emitted in
\* the step in which the supervisor sees the error, carries that farm's
\* index, and the periodic re-announcement emits none.
C3_OneFarmErrorPerFailedFarm ==
    /\ [](\A i \in FarmIndexes :
            farm_error_emitted[i] = IF farm_exit[i] = "err" THEN 1 ELSE 0)
    /\ [][\A i \in FarmIndexes :
            (farm_exit[i] = "none" /\ farm_exit'[i] = "err" /\ notification_handlers > 0) =>
                last_notification' = Some(FarmErrorNotification(i))]_vars
    /\ [][reannounced' # reannounced => UNCHANGED hubVars]_vars

\* One farm failed and was announced again, one exited with Ok and one
\* still runs; only the failed one has a FarmError notification.
C3_Witness ==
    /\ notification_handlers > 0
    /\ \E i, j, k \in FarmIndexes :
            /\ farm_exit[i] = "err" /\ reannounced[i] >= 1 /\ farm_error_emitted[i] = 1
            /\ farm_exit[j] = "ok" /\ farm_error_emitted[j] = 0
            /\ farm_exit[k] = "none" /\ farm_error_emitted[k] = 0

\* C4: once every farm run future has returned, farms_fut awaits a future
\* that never completes and stays there until it is dropped; it never
\* resolves, and the farmer future completes only because every action
\* sender is gone and the action channel is drained.
C4_FarmExhaustionNeverCompletes ==
    /\ [](pc = "running" /\ farms_run_stream = {} => farms_fut_await = "pending")
    /\ [](farms_fut_await # "resolved")
    /\ [][farms_fut_await = "pending" => farms_fut_await' \in {"pending", "dropped"}]_vars
    /\ [][pc = "running" /\ run_result' = "ok_farmer_fut_ended" => ProcessActionsDone]_vars

\* Several farms have exited, with Ok and with an error, and the farmer
\* still runs.
C4_Witness ==
    /\ pc = "running"
    /\ N >= 2
    /\ farms_run_stream = {}
    /\ farms_fut_await = "pending"
    /\ \E i, j \in FarmIndexes : farm_exit[i] = "ok" /\ farm_exit[j] = "err"

-----------------------------------------------------------------------------
(* Properties of pausing *)

\* C10 as stated: whenever the pause flag is true, eventually the
\* controller holds plotting_thread_pools_count pairs or the flag is false
\* again.
C10_PauseHoldsEveryThreadPool ==
    pause_plotting ~> (thread_pools = plotting_thread_pools_count \/ ~pause_plotting)

\* C10: whenever the pause flag is true while the farmer runs, eventually
\* the controller holds plotting_thread_pools_count pairs, unless the flag
\* becomes false again or the farmer future ends (every action sender was
\* dropped), which drops the controller.
C10_PauseHoldsEveryThreadPoolWhileRunning ==
    (pc = "running" /\ pause_plotting) ~>
        \/ thread_pools = plotting_thread_pools_count
        \/ ~pause_plotting
        \/ pc # "running"

\* The controller holds every pair of a machine with several pairs, with
\* several farms running.
C10_Witness ==
    /\ pc = "running"
    /\ pause_plotting
    /\ N >= 2
    /\ plotting_thread_pools_count >= 2
    /\ thread_pools = plotting_thread_pools_count
    /\ pause_await = "changed"

\* A pass of the loop of pause_plotting_actions_fut: its first poll, a
\* changed flag seen, or a pair acquired.
ControllerPass ==
    /\ pc' = "running"
    /\ \/ pc = "created"
       \/ pause_await' # pause_await
       \/ thread_pools' # thread_pools
       \/ pause_unseen /\ ~pause_unseen'

\* The pairs the controller holds when it reads the flag in a pass.
HeldAtPass == thread_pools + (IF pause_await = "get_thread_pools" THEN 1 ELSE 0)

\* C11: a pass of the controller that reads the flag as false returns every
\* pair it holds, all of them or only some, and then waits for the flag to
\* change instead of acquiring further pairs; while the flag it has seen is
\* false it holds nothing; and a false flag leads to the controller holding
\* nothing, unless the flag becomes true again or the farmer ends.
C11_FalseFlagReleasesAll ==
    /\ [][ControllerPass /\ ~pause_plotting =>
            /\ thread_pools' = 0
            /\ thread_pools_cleared' = HeldAtPass
            /\ pause_await' = "changed"]_vars
    /\ [](pc = "running" /\ ~pause_plotting /\ ~pause_unseen =>
            thread_pools = 0 /\ pause_await = "changed")
    /\ (pc = "running" /\ ~pause_plotting) ~>
            (thread_pools = 0 \/ pause_plotting \/ pc # "running")

\* The flag went back to false before every pair was acquired: the
\* controller returned the pairs it held, fewer than all, and waits.
C11_Witness ==
    /\ pc = "running"
    /\ ~pause_plotting
    /\ ~pause_unseen
    /\ thread_pools = 0
    /\ thread_pools_cleared >= 1
    /\ thread_pools_cleared < plotting_thread_pools_count
    /\ pause_await = "changed"

\* The farms that hold a thread pool pair.
FarmsHoldingThreadPools == {f \in FarmIndexes : farm_thread_pools[f]}

-----------------------------------------------------------------------------
(* Properties of the failures of create_farmer *)

\* C13: with an empty list of disk farms create_farmer has failed with the
\* "at least one disk farm" error as soon as it has acted, and has done no
\* I/O: no directory was checked or created, the node client was not
\* queried and no farm construction was started.
C13_NoDiskFarmsFailsBeforeIO ==
    (N = 0 /\ pc # "start") =>
        /\ pc = "failed"
        /\ result = "no_disk_farms"
        /\ io_done = {}
        /\ farms_stream = {}
        /\ farms_pushed = <<>>
        /\ farms = <<>>

\* create_farmer was called with no disk farm and has returned.
C13_Witness ==
    /\ N = 0
    /\ pc = "failed"
    /\ result = "no_disk_farms"

\* C14 as stated: when create_farmer has failed for a list of more than 256
\* disk farms, the construction of no farm was attempted.
C14_TooManyFarmsFailBeforeConstruction ==
    (N > U8_MAX + 1 /\ pc = "failed") =>
        /\ "farms" \notin io_done
        /\ farms = <<>>

\* Lines 355-377: the errors a construction future returns.
ConstructionErrors == {"insufficient_allocated_space", "farm_error"}

\* create_farmer returned the error of a farm construction.
ConstructionFailed == pc = "failed" /\ result \in ConstructionErrors

\* The construction futures that have completed: the pairs pushed and the
\* one whose error was returned.
ConstructionsCompleted == Len(farms_pushed) + (IF ConstructionFailed THEN 1 ELSE 0)

\* C15 as stated: when create_farmer has failed with a construction error,
\* all N construction attempts have completed.
C15_FailureAfterAllAttempts ==
    ConstructionFailed => ConstructionsCompleted = N

\* C16: when create_farmer has returned the error of a farm construction
\* there is no Farmer: the plotting-delay handler is not registered on the
\* sync progress, the shared plotted-piece slot is not written, no farm has
\* a listener or a run future, and nothing of it happens later.
C16_ConstructionFailureLeavesNothing ==
    /\ [](ConstructionFailed =>
            /\ result # "ok"
            /\ handler_id = None
            /\ sync_handlers = {}
            /\ plotted_pieces = None
            /\ farms = <<>>
            /\ farms_run_stream = {}
            /\ farms_fut_await = "none"
            /\ pause_await = "none")
    /\ [][ConstructionFailed => ConstructionFailed']_vars

\* One of several constructions failed after another had succeeded.
C16_Witness ==
    /\ ConstructionFailed
    /\ N >= 2
    /\ Len(farms_pushed) >= 1

-----------------------------------------------------------------------------
(* Properties of Farmer::run *)

\* C17 as stated: whenever Farmer::run has resolved, either the cache worker
\* had ended and run returned Ok, or the farmer future's thread signalled an
\* internal error and run returned Err. Violated: run also returns Err when
\* a thread cannot be spawned, and Ok when the farmer future itself ends.
C17_RunResolvesInTwoSituations ==
    pc = "finished" => run_result \in {"ok_cache_worker_ended", "err_farmer_thread"}

\* C17, amended: Farmer::run resolves only in four situations: a thread for
\* the cache worker or the farmer future cannot be spawned (Err), the cache
\* worker ended (Ok), the farmer future's thread ended without a result
\* (Err), or the farmer future ended (Ok), which happens only once every
\* action sender is dropped and the action channel is drained; in every
\* other situation run stays pending.
C17_RunResolvesInFourSituations ==
    [][/\ pc # "finished" /\ pc' = "finished" =>
            \/ pc = "created" /\ run_result' \in {"err_spawn_cache_worker",
                                                  "err_spawn_farmer"}
            \/ pc = "running" /\ run_result' \in {"ok_cache_worker_ended",
                                                  "err_farmer_thread"}
            \/ /\ pc = "running"
               /\ run_result' = "ok_farmer_fut_ended"
               /\ action_senders = 0
               /\ action_queue = <<>>
       /\ pc' = "running" => run_result' = "none"]_vars

C17_Witness ==
    /\ pc = "finished"
    /\ run_result = "ok_farmer_fut_ended"
    /\ \E i \in FarmIndexes : farm_exit[i] = "err"

\* C18: after a Farmer is constructed and dropped without run ever being
\* polled, nothing is left waiting: no send on a clone of the action sender
\* waits for a receiver the Farmer kept alive, no action stays queued, and
\* the farms' run futures, the pause controller and the thread pools they
\* could hold are gone.
C18_DropWithoutPollingReleasesAll ==
    pc = "dropped" =>
        /\ ~ActionSendWaits
        /\ action_queue = <<>>
        /\ farms_run_stream = {}
        /\ farms_fut_await = "dropped"
        /\ pause_await = "dropped"
        /\ thread_pools = 0
        /\ \A i \in FarmIndexes : ~farm_thread_pools[i]

C18_Witness ==
    /\ pc = "dropped"
    /\ action_senders > 0
    /\ run_result = "none"

-----------------------------------------------------------------------------
(* Properties of the thread pool partitioning *)

\* The thread pool manager was created: the lists of lines 248-277 exist.
ThreadPoolsCreated == pc = "constructing"

\* C19 as stated: with G hardware groups and N farms the plotting and the
\* replotting list have the same length, N when G > N and G otherwise,
\* and the manager pairs plotting group i with replotting group i.
\* Violated: regrouping 4 groups for 3 farms yields 2 groups.
C19_GroupListsSizedToFarms ==
    ThreadPoolsCreated =>
        LET G == Len(hardware_core_sets)
            plotting == plotting_thread_pool_core_indices
            replotting == replotting_thread_pool_core_indices
        IN  /\ Len(plotting) = Len(replotting)
            /\ Len(plotting) = IF G > N THEN N ELSE G
            /\ Len(plotting_thread_pool_manager) = Len(plotting)
            /\ \A i \in 1 .. Len(plotting_thread_pool_manager) :
                   plotting_thread_pool_manager[i] = <<plotting[i], replotting[i]>>

\* C20 as stated: every replotting group has exactly floor(c / 2) cores,
\* c the number of cores of the plotting group at the same position.
\* Violated: two groups of 3 cores regrouped for one farm give a plotting
\* group of 6 cores and a replotting group of 1 + 1 = 2 cores.
C20_ReplottingGroupIsHalf ==
    ThreadPoolsCreated =>
        \A i \in 1 .. Len(plotting_thread_pool_manager) :
            Len(plotting_thread_pool_manager[i][2]) =
                Len(plotting_thread_pool_manager[i][1]) \div 2

-----------------------------------------------------------------------------
(* Properties of create_farmer's later steps *)

\* C21: a list of more than 256 farms is never accepted and, once its
\* farms are constructed, is rejected with the 'more than 256 plots' error;
\* a list of up to 256 farms is never rejected with it; at the rejection no farm run future exists and the
\* shared plotted-piece slot is still empty.
C21_MoreThan256FarmsRejected ==
    /\ N > U8_MAX + 1 =>
            /\ pc # "created"
            /\ result # "ok"
            /\ pc = "failed" /\ Len(farms) = N => result = "more_than_256_plots"
    /\ result = "more_than_256_plots" =>
            /\ N > U8_MAX + 1
            /\ pc = "failed"
            /\ plotted_pieces = None
            /\ farms_run_stream = {}
            /\ farms_fut_await = "none"

C21_Witness ==
    /\ N > U8_MAX + 1
    /\ pc = "failed"
    /\ result = "more_than_256_plots"
    /\ Len(farms) = N

\* C22: the initial farm states of a created Farmer have one entry per
\* farm, entry i holding the total and the plotted sector count of farm i
\* whatever order the count queries completed in; they are written once,
\* by create_farmer's successful return, and only go away when the Farmer
\* is consumed or dropped; a failed count query makes create_farmer fail
\* without them.
C22_InitialFarmStatesInInputOrder ==
    /\ [](pc = "created" =>
            /\ Len(initial_farm_states) = N
            /\ \A i \in FarmIndexes : initial_farm_states[i + 1] = InitialFarmState(i))
    /\ [](result = "plotted_sectors_count_failed" =>
            pc = "failed" /\ initial_farm_states = <<>>)
    /\ [][initial_farm_states' # initial_farm_states =>
            \/ pc = "initial_farm_states" /\ pc' = "created"
            \/ pc = "created" /\ pc' # "created" /\ initial_farm_states' = <<>>]_vars

\* Three farms with different plotted sector counts were created.
C22_Witness ==
    /\ pc = "created"
    /\ N = 3
    /\ initial_farm_states[1].plotted_sectors_count = 2
    /\ initial_farm_states[2].plotted_sectors_count = 0
    /\ initial_farm_states[3].plotted_sectors_count = 1

\* What a reader of the shared slot, or the callback of another farm, can
\* see: the index while nobody holds the lock.
IndexObservable == callback = None \/ ~Unwrap(callback).locked

\* C23: whenever the index can be observed after a finished event, the
\* event is applied as a whole: the entries of the new record are there
\* and those of the replaced record's slot that the new record lacks are
\* not; the state between delete_sector and add_sector exists only under
\* the lock.
C23_DeleteAndAddInOneCriticalSection ==
    (IndexObservable /\ IsSome(sector_update)) =>
        LET u == Unwrap(sector_update)
            index == Unwrap(plotted_pieces)
        IN  /\ SectorEntries(u.farm_index, u.plotted_sector) \subseteq BagToSet(index)
            /\ IsSome(u.old_plotted_sector) =>
                    (SectorEntries(u.farm_index, Unwrap(u.old_plotted_sector))
                        \ SectorEntries(u.farm_index, u.plotted_sector))
                    \cap BagToSet(index) = {}
            /\ index = SetToBag(IndexedEntries)

\* The callback of farm 1 is between delete_sector and add_sector: the old
\* record is out of the index, the new one not yet in, and the lock is
\* held; farm 0 has a record in the index.
C23_Witness ==
    /\ IsSome(callback)
    /\ Unwrap(callback).step = "add_sector"
    /\ Unwrap(callback).locked
    /\ Unwrap(sector_update).farm_index = 1
    /\ IsSome(Unwrap(sector_update).old_plotted_sector)
    /\ Unwrap(sector_update).plotted_sector.piece_indexes
            # Unwrap(Unwrap(sector_update).old_plotted_sector).piece_indexes
    /\ SectorEntries(1, Unwrap(sector_update).plotted_sector)
            \cap BagToSet(Unwrap(plotted_pieces)) = {}
    /\ SectorEntries(1, Unwrap(Unwrap(sector_update).old_plotted_sector))
            \cap BagToSet(Unwrap(plotted_pieces)) = {}
    /\ <<0, 0>> \in IndexedSlots

\* C24: the seeded index is in the shared slot before the listeners and
\* the run futures of the farms exist, so a finished-sector callback always
\* finds an index (its expect never fails); once installed, the index is
\* changed only by such a callback, by its delete_sector and add_sector.
C24_IndexInstalledBeforeListeners ==
    /\ [](pc # "panicked")
    /\ [](pc = "initial_farm_states" => IsSome(plotted_pieces) /\ farms_run_stream = {})
    /\ [](farms_run_stream # {} => IsSome(plotted_pieces))
    /\ [][plotted_pieces' # plotted_pieces =>
            \/ /\ pc = "seeding" /\ pc' = "initial_farm_states"
               /\ plotted_pieces = None
               /\ plotted_pieces' = Some(future_plotted_pieces)
            \/ /\ pc = "running"
               /\ IsSome(plotted_pieces)
               /\ sector_update' # sector_update
               /\ LET u == Unwrap(sector_update')
                  IN  plotted_pieces' = Some(on_plotted_sector_callback(
                            Unwrap(plotted_pieces), u.farm_index, u.plotted_sector,
                            u.old_plotted_sector))]_vars

\* A finished-sector callback of a farm without a seeded sector has run
\* and found the seeded index of another farm.
C24_Witness ==
    /\ pc = "running"
    /\ IsSome(sector_update)
    /\ Unwrap(sector_update).farm_index = 1
    /\ Unwrap(sector_update).old_plotted_sector = None
    /\ \E s \in SectorIndexesOf(0) :
            SectorEntries(0, PlottedSector(s, <<1, 2>>)) \subseteq BagToSet(Unwrap(plotted_pieces))

-----------------------------------------------------------------------------
(* Properties of the pause controller's loop *)

\* An acquisition completes: get_thread_pools() returned a pair to the
\* controller, which was waiting for one.
AcquisitionCompletes ==
    /\ pause_await = "get_thread_pools"
    /\ pc' = "running"
    /\ <<pause_await, thread_pools, thread_pools_cleared, pause_unseen>>'
            # <<pause_await, thread_pools, thread_pools_cleared, pause_unseen>>

\* C25: the controller acquires the pairs one at a time and reads the flag
\* before each acquisition: it starts to wait for a pair only in a pass
\* that read the flag as true and holds fewer than all pairs, and an
\* acquisition that completes when the flag is false again is the last
\* one: its pair is returned with the others and the controller waits for
\* the flag to change.
C25_OneAcquisitionPerFlagRead ==
    /\ [][thread_pools' > thread_pools => thread_pools' = thread_pools + 1]_vars
    /\ [][ControllerPass /\ pause_await' = "get_thread_pools" =>
            pause_plotting /\ thread_pools' < plotting_thread_pools_count]_vars
    /\ [][AcquisitionCompletes /\ ~pause_plotting =>
            /\ pause_await' = "changed"
            /\ thread_pools' = 0
            /\ thread_pools_cleared' = thread_pools + 1]_vars

\* The flag is false again while the controller, holding one pair, waits
\* for a second one that a farm holds.
C25_Witness ==
    /\ pc = "running"
    /\ ~pause_plotting
    /\ pause_unseen
    /\ pause_await = "get_thread_pools"
    /\ thread_pools = 1
    /\ FreeThreadPools = 0


\* The loop of the pause controller is running.
PauseLoopRuns == pause_await \in {"changed", "get_thread_pools"}

\* C26: the pause controller has no terminal state of its own. While the
\* farmer future is polled the loop never breaks: whatever value is sent,
\* new or repeated, the loop goes on, and it stops only in a step that
\* closes its watch channel, which is a step that drops the whole farmer
\* future.
C26_PauseLoopEndsOnlyWithItsInput ==
    /\ [](pause_await # "resolved")
    /\ [](pc = "running" => PauseLoopRuns)
    /\ [][PauseLoopRuns /\ ~PauseLoopRuns' =>
            ~PausePlottingSenderAlive' /\ pause_await' = "dropped"]_vars

\* Pause and resume were processed and observed, a farm exited with an
\* error, every sender is gone, and the loop waits for the next change.
C26_Witness ==
    /\ pc = "running"
    /\ ~pause_plotting
    /\ ~pause_unseen
    /\ thread_pools_cleared = plotting_thread_pools_count
    /\ pause_await = "changed"
    /\ \E f \in FarmIndexes : farm_exit[f] = "err"
    /\ action_senders = 0
    /\ action_queue = <<>>


\* C27: the farmer future resolves only when the action loop or the pause
\* controller ended. run() drops the sender of the Farmer, so once every
\* clone is dropped the queue is drained, the action loop ends, the farmer
\* future resolves and run() returns Ok(()).
C27_RunEndsOnceSendersDropped ==
    /\ [][run_result' = "ok_farmer_fut_ended" /\ run_result # "ok_farmer_fut_ended" =>
            /\ pc = "running"
            /\ pc' = "finished"
            /\ \/ action_senders = 0 /\ action_queue = <<>>
               \/ ~PauseLoopRuns]_vars
    /\ (pc = "running" /\ action_senders = 0) ~>
            (pc = "finished" /\ run_result \in {"ok_farmer_fut_ended", "ok_cache_worker_ended"})

\* run() returned Ok(()) after a clone sent a pause request, which was
\* processed, and was dropped.
C27_Witness ==
    /\ pc = "finished"
    /\ run_result = "ok_farmer_fut_ended"
    /\ action_senders = 0
    /\ pause_plotting

-----------------------------------------------------------------------------
(* Properties of the farm indexes notifications carry *)

\* C28: whatever the order in which the farms were constructed, an event of
\* the farm built from entry i of disk_farms is passed to the handlers as
\* one notification of its kind with farm_index i: a sector update as
\* SectorUpdate, a farming notification as FarmingNotification and the
\* error its run future returns as FarmError; a notification never carries
\* an index that is not the position its farm had in disk_farms.
C28_NotificationsCarryInputIndex ==
    /\ [][pc = "running" /\ notification_handlers > 0 =>
            \A i \in FarmIndexes :
                /\ FarmSectorUpdate(ListenerFarmIndex(i)) =>
                        last_notification' = Some(SectorUpdateNotification(i))
                /\ FarmFarmingNotification(ListenerFarmIndex(i)) =>
                        last_notification' = Some(FarmingNotification(i))
                /\ FarmRunExits(ListenerFarmIndex(i), FALSE) =>
                        /\ last_notification' = Some(FarmErrorNotification(i))
                        /\ farm_error_emitted' =
                                [farm_error_emitted EXCEPT ![i] = @ + 1]]_vars
    /\ [](IsSome(last_notification) /\ "farm_index" \in DOMAIN Unwrap(last_notification) =>
            /\ Unwrap(last_notification).farm_index \in FarmIndexes
            /\ farms[Unwrap(last_notification).farm_index + 1] =
                    FarmOf(disk_farms[Unwrap(last_notification).farm_index + 1]))

\* Three farms were constructed in an order other than that of disk_farms,
\* and the last farm, which completed first, raised a farming notification.
C28_Witness ==
    /\ pc = "running"
    /\ N = 3
    /\ last_notification = Some(FarmingNotification(2))
    /\ farm_exit[0] = "err"
    /\ farm_error_emitted[0] = 1


\* C29: every sync-progress event of the running farmer, the first one
\* included, is passed to the notification handlers as one
\* FarmerCacheSyncProgress notification, and the forwarding listener stays
\* registered when the plotting-delay listener removes itself.
C29_EverySyncProgressForwarded ==
    /\ [][sync_events' = sync_events + 1 =>
            /\ "forward" \in sync_handlers
            /\ "forward" \in sync_handlers'
            /\ notification_handlers > 0 =>
                    \E progress \in ProgressValues :
                        last_notification' = Some(FarmerCacheSyncProgress(progress))]_vars
    /\ [](pc \in {"created", "running"} => "forward" \in sync_handlers)

\* The second sync-progress event was forwarded after the first one
\* released the plotting delay and removed the plotting-delay listener.
C29_Witness ==
    /\ pc = "running"
    /\ sync_events = 2
    /\ handler_id = None
    /\ sync_handlers = {"forward"}
    /\ \A i \in FarmIndexes : delay_sent[i] = 1
    /\ \E progress \in ProgressValues :
            last_notification = Some(FarmerCacheSyncProgress(progress))

-----------------------------------------------------------------------------
(* Properties of the re-announcement tasks *)

\* C30: a farm whose run future returns an error gets one re-announcement
\* task, started in that step; the task logs the error again after every
\* interval for as long as the farmer future exists, and is stopped with
\* it; a farm whose run future returns Ok(()) gets no task and no
\* notification.
C30_OneReannouncementTaskPerFailedFarm ==
    /\ [](pc = "running" => farm_errors = FailedFarms)
    /\ [](~FarmerFutAlive => farm_errors = {})
    /\ [][\A i \in FarmIndexes :
            /\ (farm_exit[i] = "none" /\ farm_exit'[i] = "err") =>
                    i \notin farm_errors /\ farm_errors' = farm_errors \cup {i}
            /\ (farm_exit[i] = "none" /\ farm_exit'[i] = "ok") =>
                    UNCHANGED <<farm_errors, reannounced, hubVars>>
            /\ reannounced'[i] # reannounced[i] =>
                    /\ FarmerFutAlive /\ FarmerFutAlive'
                    /\ i \in farm_errors
                    /\ reannounced'[i] = reannounced[i] + 1]_vars
    /\ \A i \in AllFarmIndexes :
            (pc = "running" /\ i \in farm_errors) ~>
                (~FarmerFutAlive \/ (i \in FarmIndexes /\ reannounced[i] = MaxReannounced))

\* One farm failed and its error was logged again twice, another farm
\* exited successfully and nothing was logged again for it.
C30_Witness ==
    /\ pc = "running"
    /\ \E i, j \in FarmIndexes :
            /\ farm_exit[i] = "err"
            /\ reannounced[i] = 2
            /\ farm_exit[j] = "ok"
            /\ reannounced[j] = 0
            /\ farm_errors = {i}

-----------------------------------------------------------------------------
(* Properties of the failures of Farmer::run and create_farmer *)

\* run() returned the error of a thread that could not be spawned.
SpawnFailed == run_result \in {"err_spawn_cache_worker", "err_spawn_farmer"}

C32_FirstUncreatableDirectoryFails ==
    /\ [][pc = "start" /\ pc' # "start" /\ ~DiskFarmsEmpty =>
            /\ result' = "create_dir_failed" <=>
                    \E k \in DOMAIN disk_farms :
                        directories[disk_farms[k].directory] = "uncreatable"
            /\ \A k \in DOMAIN disk_farms :
                    directories'[disk_farms[k].directory] = "create_failed" <=>
                        /\ directories[disk_farms[k].directory] = "uncreatable"
                        /\ \A j \in 1 .. (k - 1) :
                                directories[disk_farms[j].directory] # "uncreatable"]_vars
    /\ [](result = "create_dir_failed" =>
            /\ pc = "failed"
            /\ io_done = {"directories"}
            /\ farms_stream = {}
            /\ farms = <<>>
            /\ Cardinality({d \in DOMAIN directories :
                                directories[d] = "create_failed"}) = 1)

\* Of three farms the first directory was created, the second could not be
\* created and decided the error, and the third, which cannot be created
\* either, was not tried.
C32_Witness ==
    /\ result = "create_dir_failed"
    /\ N = 3
    /\ directories = [d \in FarmIndexes |->
            CASE d = 0 -> "exists" [] d = 1 -> "create_failed" [] OTHER -> "uncreatable"]


\* C33 as stated: on every machine whose plotting sets have at least one
\* core each, the record encoding concurrency is half the cores of the
\* first plotting set, at most 8, and is between 1 and 8, so the expect of
\* line 288 does not panic.
\* Violated: one L3 cache group of one core gives 1 / 2 = 0.
C33_RecordEncodingConcurrencyInRange ==
    /\ pc \in {"constructing", "panicked"}
    /\ \A j \in DOMAIN plotting_thread_pool_core_indices :
            Len(plotting_thread_pool_core_indices[j]) >= 1
    => /\ pc # "panicked"
       /\ record_encoding_concurrency(plotting_thread_pool_core_indices) \in 1 .. 8


\* C34: the pause controller holds between 0 and
\* plotting_thread_pools_count pairs; while it waits for the flag to change
\* it holds none of them, when the flag it read last was false, or all of
\* them, when it was true, never a part.
C34_NoPartialSetWhileWaitingForChange ==
    /\ thread_pools \in 0 .. plotting_thread_pools_count
    /\ (pc = "running" /\ pause_await = "changed") =>
            /\ thread_pools \in {0, plotting_thread_pools_count}
            /\ ~pause_unseen =>
                    thread_pools = IF pause_plotting
                                   THEN plotting_thread_pools_count
                                   ELSE 0

\* The controller holds both pairs of two and waits for the next change
\* while a resume request is already in the watch channel.
C34_Witness ==
    /\ pc = "running"
    /\ pause_await = "changed"
    /\ plotting_thread_pools_count = 2
    /\ thread_pools = 2
    /\ pause_unseen
    /\ ~pause_plotting


\* The PausePlotting value sent last: the one at the back of the action
\* channel, or the one the watch channel holds when nothing is queued.
LastValueSent ==
    IF action_queue # <<>> THEN action_queue[Len(action_queue)] ELSE pause_plotting

\* Nothing is left to do: no action is queued, the controller has seen
\* the value of the watch channel and waits for no pair, and no farm holds
\* a pair.
Quiescent ==
    /\ pc = "running"
    /\ ~ENABLED ProcessAction
    /\ ~ENABLED PauseChanged
    /\ ~ENABLED PauseAcquired
    /\ FarmsHoldingThreadPools = {}

\* C35: no pause action is lost and the last one wins. The value sent
\* last changes only when a value is sent, which appends it to the
\* channel; once nothing is left to do the controller holds every pair if
\* that value is true and none if it is false; and while the farmer runs
\* the value sent last leads to the controller holding every pair or none
\* accordingly, unless another value is sent last or the farmer ends.
C35_LastPauseValueWins ==
    /\ [][LastValueSent' # LastValueSent /\ pc' \in {"created", "running"} =>
            action_queue' = Append(action_queue, LastValueSent')]_vars
    /\ [](Quiescent =>
            /\ pause_await = "changed"
            /\ thread_pools = IF LastValueSent THEN plotting_thread_pools_count ELSE 0)
    /\ \A b \in BOOLEAN :
            (pc = "running" /\ LastValueSent = b) ~>
                \/ thread_pools = IF b THEN plotting_thread_pools_count ELSE 0
                \/ LastValueSent # b
                \/ pc # "running"

\* Pause, resume and pause again were sent, the last while the controller
\* had returned its pairs; nothing is left to do and the controller holds
\* both pairs.
C35_Witness ==
    /\ Quiescent
    /\ plotting_thread_pools_count = 2
    /\ thread_pools = 2
    /\ thread_pools_cleared >= 1
    /\ LastValueSent

-----------------------------------------------------------------------------
(* Properties of the registration of the plotting-delay handler *)

\* The first call of the plotting-delay handler has returned.
FirstCallbackReturned == sync_events >= 1 /\ delay_callback = "idle"

\* C36: the handler cannot take its id before the id is stored. A call of
\* the handler that arrives while create_farmer registers it waits for the
\* mutex of the slot until the id is stored, so once the first call has
\* returned, however it interleaved with the registration, the slot is
\* empty and the handler is removed, and the signals were sent once.
C36_UnsubscribeAfterIdStored ==
    /\ [](FirstCallbackReturned =>
            /\ handler_id = None
            /\ "plotting_delay" \notin sync_handlers
            /\ pc \notin {"lock_handler_id", "on_sync_progress", "replace_handler_id"}
            /\ \A i \in FarmIndexes : delay_sent[i] = 1)
    /\ [][delay_callback = "take_handler_id" /\ delay_callback' = "idle" =>
            handler_id = Some("plotting_delay") /\ handler_id' = None]_vars

\* The first sync-progress event called the handler after it was
\* registered and before its id was stored: the call waits for the mutex.
C36_Witness ==
    /\ pc = "replace_handler_id"
    /\ delay_callback = "take_handler_id"
    /\ handler_id = None
    /\ "plotting_delay" \in sync_handlers

-----------------------------------------------------------------------------
(* Properties of the order of the sector-update listeners *)

\* A SectorUpdate notification with a finished sector is delivered to a
\* handler registered through on_notification.
FinishedSectorDelivered ==
    /\ notification_handlers > 0
    /\ callback = None
    /\ IsSome(callback')
    /\ last_notification' = Some(SectorUpdateNotification(Unwrap(sector_update').farm_index))

\* C37 as stated: when the notification of a finished sector is delivered,
\* the index already holds the new record of that event.
\* Violated: the forwarding listener was registered before the index
\* listener and is called first.
C37_IndexUpdatedBeforeDelivery ==
    [][FinishedSectorDelivered =>
            LET u == Unwrap(sector_update')
            IN  SectorEntries(u.farm_index, u.plotted_sector)
                    \subseteq BagToSet(Unwrap(plotted_pieces'))]_vars

\* C37: the notification of a finished sector and the update of the index
\* belong to the same dispatch of the event, and the update need not come
\* first: an event is dispatched when no callback of the index listener is
\* in progress, it is delivered to the notification handlers and starts
\* the callback of the index listener; when that callback has returned,
\* before another event is dispatched, the index holds the new record.
C37_IndexUpdatedInSameDispatch ==
    /\ [][sector_update' # sector_update =>
            /\ callback = None
            /\ IsSome(callback')
            /\ notification_handlers > 0 =>
                    last_notification' =
                        Some(SectorUpdateNotification(Unwrap(sector_update').farm_index))]_vars
    /\ [][IsSome(callback) /\ callback' = None =>
            LET u == Unwrap(sector_update)
            IN  SectorEntries(u.farm_index, u.plotted_sector)
                    \subseteq BagToSet(Unwrap(plotted_pieces'))]_vars

\* The notification of a sector that replaces another was delivered and
\* the index still holds the replaced record and not the new one.
C37_Witness ==
    /\ IsSome(callback)
    /\ Unwrap(callback).step = "delete_sector"
    /\ notification_handlers > 0
    /\ last_notification = Some(SectorUpdateNotification(Unwrap(sector_update).farm_index))
    /\ IsSome(Unwrap(sector_update).old_plotted_sector)
    /\ SectorEntries(Unwrap(sector_update).farm_index, Unwrap(sector_update).plotted_sector)
            \cap BagToSet(Unwrap(plotted_pieces)) = {}
    /\ SectorEntries(Unwrap(sector_update).farm_index,
                     Unwrap(Unwrap(sector_update).old_plotted_sector))
            \subseteq BagToSet(Unwrap(plotted_pieces))

-----------------------------------------------------------------------------
(* The specification of create_farmer alone, from its entry to its return,
   for small configurations with plotted sectors and for one with more
   than 256 farms, none of them with a plotted sector *)

InitSeed == InitWith((0 .. MaxFarms) \cup {ManyFarms})

NextSeed ==
    \/ \E l3_cache_groups \in 1 .. MaxL3CacheGroups, start_error \in StartErrors :
            Start(L3CacheGroups(l3_cache_groups), start_error)
    \/ /\ N <= MaxFarms
       /\ \E i \in AllFarmIndexes : FarmConstructed(i)
    \/ /\ N > MaxFarms
       /\ FarmConstructedInOrder
    \/ \E error \in {"insufficient_allocated_space", "farm_error"} :
            FarmConstructionFailed(Len(farms_pushed), error)
    \/ ReplaceBackingCaches
    \/ /\ N <= MaxFarms
       /\ \E piece_indexes \in PieceIndexesChoices, read_error \in BOOLEAN :
            SeedSector(piece_indexes, read_error)
    \/ SeedFarmDone
    \/ InitialFarmStatesInOrder
    \/ InitialFarmStatesFailed

SpecSeed == InitSeed /\ [][NextSeed]_vars

\* Lines 207-468: create_farmer returned an error from a statement before
\* line 493.
FailedBeforeSeeded ==
    /\ pc = "failed"
    /\ result \in {"no_disk_farms", "create_dir_failed", "farmer_app_info_failed",
                   "thread_pool_manager_failed", "more_than_256_plots"}
                    \cup ConstructionErrors

\* Lines 472-489: the index holds the entries of every sector record the
\* farms returned without a read error.
FullySeeded(index) ==
    \A f \in FarmIndexes : \A s \in SectorIndexesOf(f) :
        (IsSome(farm_sectors[f][s]) /\ ~Unwrap(farm_sectors[f][s]).read_error) =>
            SectorEntries(f, Unwrap(farm_sectors[f][s]).plotted_sector)
                \subseteq BagToSet(index)

\* C38: create_farmer writes the caller's shared slot once, in the step
\* that ends the seeding loop at the last farm, with the index seeded from
\* every farm; the slot is as the caller passed it (empty) in every other
\* step and when create_farmer has returned one of the earlier errors.
C38_SlotWrittenOnceAfterSeeding ==
    /\ [][plotted_pieces' # plotted_pieces =>
            /\ pc = "seeding" /\ pc' = "initial_farm_states"
            /\ seed_farm + 1 = N
            /\ plotted_pieces = None
            /\ plotted_pieces' = Some(future_plotted_pieces)
            /\ FullySeeded(future_plotted_pieces)]_vars
    /\ [](FailedBeforeSeeded => plotted_pieces = None)
    /\ [](pc \in {"start", "constructing", "replace_backing_caches", "seeding"} =>
            plotted_pieces = None)
    /\ [](pc \in {"initial_farm_states", "created"} =>
            IsSome(plotted_pieces) /\ FullySeeded(Unwrap(plotted_pieces)))

\* The slot was written after seeding two farms: it holds a sector of
\* each, and a sector of farm 0 whose read failed is not in it.
C38_Witness ==
    /\ pc = "initial_farm_states"
    /\ N = 2
    /\ IsSome(farm_sectors[0][0]) /\ Unwrap(farm_sectors[0][0]).read_error
    /\ IsSome(farm_sectors[0][1]) /\ ~Unwrap(farm_sectors[0][1]).read_error
    /\ IsSome(farm_sectors[1][0]) /\ ~Unwrap(farm_sectors[1][0]).read_error
    /\ IsSome(plotted_pieces)
    /\ \A e \in BagToSet(Unwrap(plotted_pieces)) : ~(e[2] = 0 /\ e[3] = 0)
    /\ \E e \in BagToSet(Unwrap(plotted_pieces)) : e[2] = 1

-----------------------------------------------------------------------------
(* main.rs: AppStatusCode and the process supervisor, Cli::supervisor *)

\* The most child processes one supervisor launches.
MaxLaunches == 3

\* The status codes tried lie between -MaxStatusCode and MaxStatusCode, or
\* are an end of the i32 range.
MaxStatusCode == 128
I32_MAX == 2147483647
I32_MIN == (-I32_MAX) - 1

\* from_status_code on a code cut to its low byte, as in `code as u8`.
from_status_code_u8(code) ==
    IF code % 256 = 0 THEN <<"Exit">>
    ELSE IF code % 256 = 100 THEN <<"Restart">>
    ELSE <<"Unknown", code % 256>>

\* main.rs 58-64, AppStatusCode::from_status_code.
from_status_code(code) ==
    IF code = 0 THEN <<"Exit">>
    ELSE IF code = 100 THEN <<"Restart">>
    ELSE <<"Unknown", code>>

\* main.rs 66-72, AppStatusCode::into_status_code.
into_status_code(self) ==
    IF self[1] = "Exit" THEN 0
    ELSE IF self[1] = "Restart" THEN 100
    ELSE self[2]

\* main.rs 916-926 without line 921: self.startup stays set.
LaunchKeepsStartup(spawn_error) ==
    /\ supervisor_pc = "loop"
    /\ launches < MaxLaunches
    /\ args' = <<"--child-process">> \o (IF startup THEN <<"--startup">> ELSE <<>>) \o <<"--">>
    /\ startup' = startup
    /\ exit_status' = None
    /\ IF spawn_error
       THEN /\ supervisor_pc' = "returned"
            /\ supervisor_result' = <<"Err">>
            /\ UNCHANGED <<launches, child_state, child_code>>
       ELSE /\ supervisor_pc' = IF child_output = "reader" THEN "read" ELSE "run"
            /\ launches' = launches + 1
            /\ child_state' = "running"
            /\ child_code' = None
            /\ UNCHANGED supervisor_result
    /\ UNCHANGED <<child_output, status_code, app_status_code, round_trip, farmerVars>>

\* main.rs 916-936 and 977-992: an iteration of the loop builds the
\* arguments, with --startup if self.startup is set, which it clears, and
\* starts the child (reader()? or the start of run()?); a child that cannot
\* be started makes the supervisor return the error.
Launch(spawn_error) ==
    /\ supervisor_pc = "loop"
    /\ launches < MaxLaunches
    /\ args' = <<"--child-process">> \o (IF startup THEN <<"--startup">> ELSE <<>>) \o <<"--">>
    /\ startup' = FALSE
    /\ exit_status' = None
    /\ IF spawn_error
       THEN /\ supervisor_pc' = "returned"
            /\ supervisor_result' = <<"Err">>
            /\ UNCHANGED <<launches, child_state, child_code>>
       ELSE /\ supervisor_pc' = IF child_output = "reader" THEN "read" ELSE "run"
            /\ launches' = launches + 1
            /\ child_state' = "running"
            /\ child_code' = None
            /\ UNCHANGED supervisor_result
    /\ UNCHANGED <<child_output, status_code, app_status_code, round_trip, farmerVars>>

\* The child process ends while the supervisor runs: with a status code
\* (main.rs 820 for a child that returns from Cli::run) or by a signal
\* (code None).
ChildExits(code) ==
    /\ child_state = "running"
    /\ supervisor_pc # "returned"
    /\ child_state' = "exited"
    /\ child_code' = code
    /\ UNCHANGED <<startup, child_output, supervisor_pc, launches, args, exit_status,
                   supervisor_result, status_code, app_status_code, round_trip, farmerVars>>

\* main.rs 941-968: the loop that copies the child's output ends, at the
\* end of the output, which the child's exit brings, or before it on an
\* error of a read or a write.
ReadOutput(eof) ==
    /\ supervisor_pc = "read"
    /\ eof => child_state = "exited"
    /\ supervisor_pc' = "flush"
    /\ UNCHANGED <<startup, child_output, launches, args, child_state, child_code, exit_status,
                   supervisor_result, status_code, app_status_code, round_trip, farmerVars>>

\* main.rs 970-973: stdout.flush()? returns its error; an error of
\* logger.flush() is printed only.
Flush(error) ==
    /\ supervisor_pc = "flush"
    /\ IF error
       THEN supervisor_pc' = "returned" /\ supervisor_result' = <<"Err">>
       ELSE supervisor_pc' = "try_wait" /\ UNCHANGED supervisor_result
    /\ UNCHANGED <<startup, child_output, launches, args, child_state, child_code, exit_status,
                   status_code, app_status_code, round_trip, farmerVars>>

\* main.rs 975-983, expression.try_wait()?: its error is returned; the
\* status of a child that has exited is taken; a child that still runs
\* makes the supervisor return an error.
TryWait(error) ==
    /\ supervisor_pc = "try_wait"
    /\ IF error \/ child_state # "exited"
       THEN /\ supervisor_pc' = "returned"
            /\ supervisor_result' = <<"Err">>
            /\ UNCHANGED exit_status
       ELSE /\ supervisor_pc' = "match"
            /\ exit_status' = Some(child_code)
            /\ UNCHANGED supervisor_result
    /\ UNCHANGED <<startup, child_output, launches, args, child_state, child_code,
                   status_code, app_status_code, round_trip, farmerVars>>

\* main.rs 984-1000, run()?.status: the supervisor waits for the child's
\* exit and takes its status, or returns the error of the wait.
RunChild(error) ==
    /\ supervisor_pc = "run"
    /\ child_state = "exited"
    /\ IF error
       THEN /\ supervisor_pc' = "returned"
            /\ supervisor_result' = <<"Err">>
            /\ UNCHANGED exit_status
       ELSE /\ supervisor_pc' = "match"
            /\ exit_status' = Some(child_code)
            /\ UNCHANGED supervisor_result
    /\ UNCHANGED <<startup, child_output, launches, args, child_state, child_code,
                   status_code, app_status_code, round_trip, farmerVars>>

\* main.rs 1002-1025, match exit_status.code(): Exit and a signal break
\* the loop and Ok(()) is returned, Restart continues the loop, Unknown
\* calls process::exit with the code.
MatchExitStatus ==
    /\ supervisor_pc = "match"
    /\ LET code == Unwrap(exit_status)
           app_status == from_status_code(Unwrap(code))
       IN  IF code = None \/ app_status[1] = "Exit"
           THEN supervisor_pc' = "returned" /\ supervisor_result' = <<"Ok">>
           ELSE IF app_status[1] = "Restart"
           THEN supervisor_pc' = "loop" /\ UNCHANGED supervisor_result
           ELSE supervisor_pc' = "returned" /\ supervisor_result' = <<"exit", app_status[2]>>
    /\ UNCHANGED <<startup, child_output, launches, args, child_state, child_code, exit_status,
                   status_code, app_status_code, round_trip, farmerVars>>

\* main.rs 912-915: Cli::supervisor is entered, with or without --startup,
\* in one of the three ways of handling the child's output (927-929, 984,
\* 993).
InitSupervisor ==
    /\ CreateFarmerEntered({0})
    /\ startup \in BOOLEAN
    /\ child_output \in {"reader", "null", "inherit"}
    /\ supervisor_pc = "loop"
    /\ launches = 0
    /\ args = <<>>
    /\ child_state = "none"
    /\ child_code = None
    /\ exit_status = None
    /\ supervisor_result = None
    /\ status_code = 0
    /\ app_status_code = None
    /\ round_trip = None

NextSupervisor ==
    \/ \E spawn_error \in BOOLEAN : Launch(spawn_error)
    \/ \E app_status \in {<<"Exit">>, <<"Restart">>} :
            ChildExits(Some(into_status_code(app_status) % 256))
    \/ \E code \in {Some(1), Some(101), Some(-1073741819), None} : ChildExits(code)
    \/ \E eof \in BOOLEAN : ReadOutput(eof)
    \/ \E error \in BOOLEAN : Flush(error)
    \/ \E error \in BOOLEAN : TryWait(error)
    \/ \E error \in BOOLEAN : RunChild(error)
    \/ MatchExitStatus

SpecSupervisor == InitSupervisor /\ [][NextSupervisor]_vars

\* The whole of the claim C39 as stated: when the supervisor has stopped
\* and its child has exited, the child did not exit with 100, the
\* supervisor returned success if the child exited with 0 or by a signal
\* and exited with the child's code otherwise; --startup is in the
\* arguments of the first launch only.
C39_SupervisorFollowsChildStatus ==
    /\ (supervisor_pc = "returned" /\ child_state = "exited") =>
            /\ child_code # Some(100)
            /\ child_code \in {Some(0), None} => supervisor_result = <<"Ok">>
            /\ child_code \notin {Some(0), Some(100), None} =>
                    supervisor_result = <<"exit", Unwrap(child_code)>>
    /\ launches > 1 => \A k \in DOMAIN args : args[k] # "--startup"

\* C39: the supervisor follows the exit status it has obtained from the
\* child: it launches another child only after a status with code 100, on
\* which it always continues the loop; on code 0 or a signal it returns
\* Ok; on any other code it exits the process with that code; it returns
\* an error exactly when it ends without a status obtained. --startup is
\* passed exactly when self.startup is set, which it is before the first
\* launch at most.
C39_SupervisorFollowsObtainedStatus ==
    /\ [][launches' # launches =>
            /\ launches' = launches + 1
            /\ launches = 0 \/ exit_status = Some(Some(100))]_vars
    /\ [][(supervisor_pc = "match" /\ supervisor_pc' # "match") =>
            LET code == Unwrap(exit_status)
            IN  /\ code = Some(100) =>
                        supervisor_pc' = "loop" /\ supervisor_result' = None
                /\ code \in {Some(0), None} =>
                        supervisor_pc' = "returned" /\ supervisor_result' = <<"Ok">>
                /\ code \notin {Some(0), Some(100), None} =>
                        /\ supervisor_pc' = "returned"
                        /\ supervisor_result' = <<"exit", Unwrap(code)>>]_vars
    /\ [](supervisor_pc = "match" =>
            child_state = "exited" /\ exit_status = Some(child_code))
    /\ [](supervisor_pc = "returned" =>
            (supervisor_result = <<"Err">> <=> exit_status = None))
    /\ [](startup => launches = 0)
    /\ [][args' # args \/ launches' # launches =>
            ((\E k \in DOMAIN args' : args'[k] = "--startup") <=> startup)]_vars
    /\ [](launches > 1 => \A k \in DOMAIN args : args[k] # "--startup")

\* The first child, launched with --startup, exited with code 100 and the
\* supervisor is back at the head of its loop, self.startup cleared.
C39_Witness ==
    /\ supervisor_pc = "loop"
    /\ launches = 1
    /\ args = <<"--child-process", "--startup", "--">>
    /\ exit_status = Some(Some(100))
    /\ ~startup

-----------------------------------------------------------------------------
(* The specification of the conversions of AppStatusCode: a status code is
   converted with from_status_code and the result with into_status_code *)

\* main.rs 58-64 applied to the status code.
FromStatusCode ==
    /\ app_status_code = None
    /\ app_status_code' = Some(from_status_code(status_code))
    /\ UNCHANGED <<startup, child_output, supervisor_pc, launches, args, child_state,
                   child_code, exit_status, supervisor_result, status_code, round_trip,
                   farmerVars>>

\* main.rs 66-72 applied to the AppStatusCode made from the status code.
IntoStatusCode ==
    /\ IsSome(app_status_code)
    /\ round_trip = None
    /\ round_trip' = Some(into_status_code(Unwrap(app_status_code)))
    /\ UNCHANGED <<startup, child_output, supervisor_pc, launches, args, child_state,
                   child_code, exit_status, supervisor_result, status_code, app_status_code,
                   farmerVars>>

\* An i32 status code: a small one of either sign or an end of the range.
InitStatus ==
    /\ CreateFarmerEntered({0})
    /\ startup = FALSE
    /\ child_output = "inherit"
    /\ supervisor_pc = "none"
    /\ launches = 0
    /\ args = <<>>
    /\ child_state = "none"
    /\ child_code = None
    /\ exit_status = None
    /\ supervisor_result = None
    /\ status_code \in ((-MaxStatusCode) .. MaxStatusCode) \cup {I32_MIN, I32_MAX}
    /\ app_status_code = None
    /\ round_trip = None

NextStatus == FromStatusCode \/ IntoStatusCode

SpecStatus == InitStatus /\ [][NextStatus]_vars

\* C40: converting a status code with from_status_code gives Exit for 0,
\* Restart for 100 and Unknown with the code for any other code, and
\* converting the result back with into_status_code gives the code again.
C40_StatusCodeRoundTrip ==
    /\ IsSome(app_status_code) =>
            /\ status_code = 0 => Unwrap(app_status_code) = <<"Exit">>
            /\ status_code = 100 => Unwrap(app_status_code) = <<"Restart">>
            /\ status_code \notin {0, 100} =>
                    Unwrap(app_status_code) = <<"Unknown", status_code>>
    /\ IsSome(round_trip) => Unwrap(round_trip) = status_code

\* The lowest i32 went through both conversions, as Unknown.
C40_Witness ==
    /\ status_code = I32_MIN
    /\ app_status_code = Some(<<"Unknown", I32_MIN>>)
    /\ round_trip = Some(I32_MIN)

=============================================================================
